---------------------------- MODULE Spec2Model ----------------------------
(***************************************************************************)
(* A model of the search/selection layer of plangen: the UCB bandit        *)
(* (plangen/utils/ucb.py) and the four strategies BestOfN, REBASE,         *)
(* TreeOfThought and MixtureOfAlgorithms (plangen/algorithms/*.py).        *)
(*                                                                         *)
(* Each component has its own specification (SpecUCB, SpecBestOfN, ...).   *)
(* The generative model, the constraint extractor and the plan verifier    *)
(* are external: what they return is chosen with \E from small sets.       *)
(***************************************************************************)
EXTENDS Integers, Sequences, FiniteSets, TLC

(***************************************************************************)
(* Python floats.  UCB.update computes the running mean in IEEE-754        *)
(* binary64 arithmetic.  A float is modelled exactly, as                   *)
(*     [neg |-> sign, m |-> mantissa, e |-> exponent]  =  (+/-) m * 2^e    *)
(* with m a natural number of exactly MantissaBits bits (or zero), kept as *)
(* a little-endian sequence of limbs in 0 .. LimbBase-1 because a 53-bit   *)
(* mantissa does not fit the integers of the model checker.  Every         *)
(* operation rounds its exact result to nearest, ties to even.  Overflow,  *)
(* subnormals, infinities and NaN do not occur for the rewards and pull    *)
(* counts of the model and are not modelled.                               *)
(***************************************************************************)
LimbBits == 15

LimbBase == 32768

MantissaBits == 53

\* Quotients are computed to this many fractional bits before rounding.
DivBits == 75

RECURSIVE Pow2(_)
Pow2(k) == IF k = 0 THEN 1 ELSE 2 * Pow2(k - 1)

Min2(a, b) == IF a <= b THEN a ELSE b

Max2(a, b) == IF a >= b THEN a ELSE b

\* Drop the most significant zero limbs.
RECURSIVE BTrim(_)
BTrim(x) ==
    IF x = << >> THEN << >>
    ELSE IF x[Len(x)] = 0 THEN BTrim(SubSeq(x, 1, Len(x) - 1))
    ELSE x

\* The natural number n (a model integer) as limbs.
RECURSIVE BFromNat(_)
BFromNat(n) ==
    IF n = 0 THEN << >>
    ELSE << n % LimbBase >> \o BFromNat(n \div LimbBase)

RECURSIVE BAddC(_, _, _)
BAddC(x, y, c) ==
    IF x = << >> /\ y = << >> THEN (IF c = 0 THEN << >> ELSE << c >>)
    ELSE LET a == IF x = << >> THEN 0 ELSE Head(x)
             b == IF y = << >> THEN 0 ELSE Head(y)
             s == a + b + c
         IN  << s % LimbBase >>
             \o BAddC(IF x = << >> THEN << >> ELSE Tail(x),
                      IF y = << >> THEN << >> ELSE Tail(y),
                      s \div LimbBase)

BAdd(x, y) == BAddC(x, y, 0)

\* x - y - c for x >= y + c.
RECURSIVE BSubC(_, _, _)
BSubC(x, y, c) ==
    IF x = << >> THEN << >>
    ELSE LET b == IF y = << >> THEN 0 ELSE Head(y)
             d == Head(x) - b - c
         IN  << IF d < 0 THEN d + LimbBase ELSE d >>
             \o BSubC(Tail(x),
                      IF y = << >> THEN << >> ELSE Tail(y),
                      IF d < 0 THEN 1 ELSE 0)

BSub(x, y) == BTrim(BSubC(x, y, 0))

\* -1, 0, 1 as x < y, x = y, x > y (both trimmed).
RECURSIVE BCmpFrom(_, _, _)
BCmpFrom(x, y, i) ==
    IF i = 0 THEN 0
    ELSE IF x[i] < y[i] THEN -1
    ELSE IF x[i] > y[i] THEN 1
    ELSE BCmpFrom(x, y, i - 1)

BCmp(x, y) ==
    IF Len(x) < Len(y) THEN -1
    ELSE IF Len(x) > Len(y) THEN 1
    ELSE BCmpFrom(x, y, Len(x))

\* x * d + c for a limb-sized d.
RECURSIVE BMulSmallC(_, _, _)
BMulSmallC(x, d, c) ==
    IF x = << >> THEN (IF c = 0 THEN << >> ELSE << c >>)
    ELSE LET p == Head(x) * d + c
         IN  << p % LimbBase >> \o BMulSmallC(Tail(x), d, p \div LimbBase)

BMulSmall(x, d) == BTrim(BMulSmallC(x, d, 0))

RECURSIVE BMul(_, _)
BMul(x, y) ==
    IF x = << >> \/ y = << >> THEN << >>
    ELSE BAdd(BMulSmall(x, Head(y)),
              LET r == BMul(x, Tail(y))
              IN  IF r = << >> THEN << >> ELSE << 0 >> \o r)

\* Long division of x by a small d, from the most significant limb:
\* [q |-> quotient limbs (untrimmed), r |-> remainder].
RECURSIVE BDivSmallFrom(_, _, _, _)
BDivSmallFrom(x, d, i, rem) ==
    IF i = 0 THEN [q |-> << >>, r |-> rem]
    ELSE LET cur  == rem * LimbBase + x[i]
             rest == BDivSmallFrom(x, d, i - 1, cur % d)
         IN  [q |-> rest.q \o << cur \div d >>, r |-> rest.r]

BDivSmall(x, d) ==
    LET res == BDivSmallFrom(x, d, Len(x), 0)
    IN  [q |-> BTrim(res.q), r |-> res.r]

RECURSIVE Zeros(_)
Zeros(k) == IF k = 0 THEN << >> ELSE << 0 >> \o Zeros(k - 1)

\* x * 2^k.
BShl(x, k) ==
    IF x = << >> THEN << >>
    ELSE Zeros(k \div LimbBits) \o BMulSmall(x, Pow2(k % LimbBits))

RECURSIVE BitLenLimb(_)
BitLenLimb(d) == IF d = 0 THEN 0 ELSE 1 + BitLenLimb(d \div 2)

BBitLen(x) ==
    IF x = << >> THEN 0
    ELSE LimbBits * (Len(x) - 1) + BitLenLimb(x[Len(x)])

BIsOdd(x) == x # << >> /\ Head(x) % 2 = 1

\* floor(x / 2^k) and how the dropped part compares with one half:
\* [q |-> quotient, half |-> -1 | 0 | 1 (below, exactly, above one half),
\*  exact |-> nothing was dropped].
BShr(x, k) ==
    LET limbs == Min2(k \div LimbBits, Len(x))
        lowZ  == \A i \in 1 .. limbs : x[i] = 0
        hi    == SubSeq(x, limbs + 1, Len(x))
        bits  == k % LimbBits
        dv    == BDivSmall(hi, Pow2(bits))
        \* dropped = dv.r * LimbBase^limbs + low limbs, out of 2^k
        dropZ == lowZ /\ dv.r = 0
        top   == IF bits > 0 THEN dv.r * 2 \* compared with Pow2(bits)
                 ELSE IF limbs > 0 THEN x[limbs] * 2
                 ELSE 0
        full  == IF bits > 0 THEN Pow2(bits) ELSE LimbBase
        restZ == IF bits > 0 THEN lowZ
                 ELSE \A i \in 1 .. (limbs - 1) : x[i] = 0
    IN  [q     |-> IF k \div LimbBits >= Len(x) THEN << >> ELSE dv.q,
         half  |-> IF k = 0 THEN -1
                   ELSE IF top > full THEN 1
                   ELSE IF top < full THEN -1
                   ELSE IF restZ THEN 0 ELSE 1,
         exact |-> dropZ]

FZero == [neg |-> FALSE, m |-> << >>, e |-> 0]

\* The float nearest to (+/-) (m + f) * 2^e, where 0 <= f < 1 and f > 0 iff
\* sticky (ties to even).  With sticky, m has more than MantissaBits bits.
FRound(neg, m, e, sticky) ==
    IF m = << >> THEN FZero
    ELSE LET len == BBitLen(m)
         IN  IF len <= MantissaBits
             THEN [neg |-> neg, m |-> BShl(m, MantissaBits - len),
                   e |-> e - (MantissaBits - len)]
             ELSE LET k  == len - MantissaBits
                      sh == BShr(m, k)
                      up == \/ sh.half = 1
                            \/ sh.half = 0 /\ (sticky \/ BIsOdd(sh.q))
                      q  == IF up THEN BAdd(sh.q, << 1 >>) ELSE sh.q
                  IN  IF BBitLen(q) > MantissaBits
                      THEN [neg |-> neg, m |-> BShr(q, 1).q, e |-> e + k + 1]
                      ELSE [neg |-> neg, m |-> q, e |-> e + k]

\* float(i) for a model integer i.
FFromInt(i) ==
    FRound(i < 0, BFromNat(IF i < 0 THEN -i ELSE i), 0, FALSE)

\* a / n on Python ints (true division), 0 <= a, 0 < n: correctly rounded.
FDivInt(a, n) ==
    LET dv == BDivSmall(BShl(BFromNat(a), DivBits), n)
    IN  FRound(FALSE, dv.q, -DivBits, dv.r # 0)

FMul(x, y) ==
    FRound(x.neg # y.neg, BMul(x.m, y.m), x.e + y.e, FALSE)

FAdd(x, y) ==
    IF x.m = << >> THEN y
    ELSE IF y.m = << >> THEN x
    ELSE LET e0 == Min2(x.e, y.e)
             mx == BShl(x.m, x.e - e0)
             my == BShl(y.m, y.e - e0)
             c  == BCmp(mx, my)
         IN  IF x.neg = y.neg THEN FRound(x.neg, BAdd(mx, my), e0, FALSE)
             ELSE IF c = 0 THEN FZero
             ELSE IF c > 0 THEN FRound(x.neg, BSub(mx, my), e0, FALSE)
             ELSE FRound(y.neg, BSub(my, mx), e0, FALSE)

\* -1, 0, 1 as x < y, x = y, x > y.
FCmp(x, y) ==
    IF x.m = << >> /\ y.m = << >> THEN 0
    ELSE IF x.m = << >> THEN (IF y.neg THEN 1 ELSE -1)
    ELSE IF y.m = << >> THEN (IF x.neg THEN -1 ELSE 1)
    ELSE IF x.neg /\ ~y.neg THEN -1
    ELSE IF ~x.neg /\ y.neg THEN 1
    ELSE LET e0 == Min2(x.e, y.e)
             c  == BCmp(BShl(x.m, x.e - e0), BShl(y.m, y.e - e0))
         IN  IF x.neg THEN -c ELSE c

FGt(x, y) == FCmp(x, y) > 0

\* x / n for a float x and a Python int n > 0: correctly rounded.
FDivFloatInt(x, n) ==
    LET dv == BDivSmall(BShl(x.m, DivBits), n)
    IN  FRound(x.neg, dv.q, x.e - DivBits, dv.r # 0)

\* The square root is computed to this many bits below the mantissa's.
SqrtBits == 30

\* The largest r with r * r <= x, from bit b down, given that r is right in
\* the bits above b.
RECURSIVE BSqrtFrom(_, _, _)
BSqrtFrom(x, r, b) ==
    IF b < 0 THEN r
    ELSE LET cand == BAdd(r, BShl(<< 1 >>, b))
         IN  IF BCmp(BMul(cand, cand), x) <= 0
             THEN BSqrtFrom(x, cand, b - 1)
             ELSE BSqrtFrom(x, r, b - 1)

BSqrt(x) == BSqrtFrom(x, << >>, BBitLen(x) \div 2)

\* math.sqrt(x) for a float x >= 0: correctly rounded.
FSqrt(x) ==
    IF x.m = << >> THEN FZero
    ELSE LET odd == x.e % 2 = 1
             m2  == BShl(x.m, 2 * SqrtBits + (IF odd THEN 1 ELSE 0))
             e2  == IF odd THEN x.e - 1 ELSE x.e
             r   == BSqrt(m2)
         IN  FRound(FALSE, r, (e2 \div 2) - SqrtBits, BMul(r, r) # m2)

\* math.log(n) for the totals the model reaches: the floats of the C
\* library, mantissa and exponent.
FLog(n) ==
    CASE n = 1 -> FZero
      [] n = 2 -> [neg |-> FALSE, m |-> << 14831, 32244, 14603, 177 >>, e |-> -53]
      [] n = 3 -> [neg |-> FALSE, m |-> << 779, 30042, 20393, 140 >>, e |-> -52]
      [] n = 4 -> [neg |-> FALSE, m |-> << 14831, 32244, 14603, 177 >>, e |-> -52]
      [] n = 5 -> [neg |-> FALSE, m |-> << 3379, 28635, 263, 206 >>, e |-> -52]
      [] n = 6 -> [neg |-> FALSE, m |-> << 8194, 29780, 11311, 229 >>, e |-> -52]
      [] n = 7 -> [neg |-> FALSE, m |-> << 23127, 23652, 2506, 249 >>, e |-> -52]
      [] n = 8 -> [neg |-> FALSE, m |-> << 11123, 32375, 2760, 133 >>, e |-> -51]


(***************************************************************************)
(* State.  One group of variables per component; a specification moves one *)
(* group and leaves the others at their initial values.                    *)
(***************************************************************************)
VARIABLES
    \* ---- UCB (plangen/utils/ucb.py) ----
    counts,         \* self.counts: arm -> number of pulls
    values,         \* self.values: arm -> running mean reward (a float)
    total_pulls,    \* self.total_pulls
    exploration_weight, \* self.exploration_weight
    ucb_call,       \* the last method called on the bandit
    ucb_ret,        \* what it returned
    reward_sum,     \* history: arm -> sum of the rewards given to update
    updates,        \* history: arm -> number of update calls for the arm
    exact_values,   \* history: arm -> the running mean that update's rule
                    \* gives in exact arithmetic, a fraction
    loop_only,      \* history: every update so far was an update of the arm
                    \* that select_algorithm had just returned
    ucb_scores_ret, \* what the last call of get_ucb_scores returned
    \* ---- BestOfN (plangen/algorithms/best_of_n.py) ----
    n_plans,            \* self.n_plans
    sampling_strategy,  \* self.sampling_strategy
    parallel,           \* self.parallel
    bon_pc,             \* where run is
    results,            \* run: results, a list of (plan, score)
    results_so_far,     \* _parallel_generate: results_so_far
    futures,            \* _parallel_generate: futures, one task each
    best_idx,           \* run: best_idx (from 0)
    best_plan,          \* run: best_plan
    best_score,         \* run: best_score
    bon_problem,        \* run: problem_statement, a list of characters
    bon_observers,      \* self._observers
    bon_received,       \* observer -> the events its update was given
    bon_raised,         \* the exception run has raised, "None" without one
    bon_called,         \* history: the constraint agent, the model or the
                        \* verification agent has been called
    overtaken,          \* history: a task has ended before a task that was
                        \* submitted before it
    bon_constraint_calls, \* history: the calls of constraint_agent.run
    bon_sample_calls,     \* history: the calls of the sampling function
    bon_verify_calls,     \* history: the calls of verification_agent.run
    \* ---- BestOfN._diverse_sampling ----
    min_similarity,     \* self.min_similarity, as << num, den >>
    max_retries,        \* self.max_retries
    previous_plans,     \* the plans of previous_results
    template_rendered,  \* the template loader finds and renders the
                        \* diverse_plan template
    div_pc,             \* where _diverse_sampling is
    attempts,           \* history: the plans the model has returned
    sampled,            \* the plan _diverse_sampling returns
    div_raised,         \* the exception _diverse_sampling has raised
    \* ---- REBASE (plangen/algorithms/rebase.py) ----
    max_iterations,         \* self.max_iterations
    improvement_threshold,  \* self.improvement_threshold
    reb_pc,                 \* where run is
    current_plan,           \* run: current_plan
    current_score,          \* run: current_score
    iterations,             \* run: iterations, a list of (plan, score)
    iteration,              \* run: the loop variable of the refinement loop
    reb_problem,            \* run: problem_statement, a list of characters
    reb_observers,          \* self._observers
    reb_received,           \* observer -> the events its update was given
    reb_raised,             \* the exception run has raised, "None" without
    reb_called,             \* history: the constraint agent or the model
                            \* has been called
    reb_verifier_calls,     \* history: calls of self.verification_agent.run
    reb_llm_verify_calls,   \* history: calls of self.llm_interface.generate
                            \* made by _verify_plan
    \* ---- TreeOfThought (plangen/algorithms/tree_of_thought.py) ----
    branching_factor,   \* self.branching_factor
    max_depth,          \* self.max_depth
    beam_width,         \* self.beam_width
    tot_pc,             \* where run is
    beam,               \* run: beam, a list of nodes
    next_beam,          \* run: next_beam
    depth,              \* run: the loop variable of the depth loop
    node_idx,           \* run: the place of "for node in beam" (from 1)
    tot_best_plan,      \* run: best_plan
    tot_best_score,     \* run: best_score
    all_paths,          \* run: all_paths (the metadata)
    levels,             \* history: turns of the depth loop begun
    generate_calls,     \* history: calls of the model for a next step
    evaluate_calls,     \* history: calls of _evaluate_step
    verify_calls,       \* history: calls of _verify_plan
    tot_problem,        \* run: problem_statement, a list of characters
    tot_observers,      \* self._observers
    tot_received,       \* observer -> the events its update was given
    tot_raised,         \* the exception run has raised, "None" without one
    tot_called,         \* history: the constraint agent, the model or the
                        \* verification agent has been called
    \* ---- MixtureOfAlgorithms (plangen/algorithms/mixture_of_algorithms.py)
    max_algorithm_switches, \* self.max_algorithm_switches
    moa_pc,                 \* where run is
    current_algorithm_name, \* run: current_algorithm_name
    moa_current_plan,       \* run: current_plan
    moa_current_score,      \* run: current_score
    algorithm_history,      \* run: algorithm_history
    moa_iterations,         \* run: iterations (the metadata)
    moa_iteration,          \* run: the loop variable of the switch loop
    child_observers,        \* child -> its self._observers; "moa" is this
                            \* instance
    child_published,        \* history: the events the children have
                            \* published in this run
    moa_run,                \* history: the number of the call of run on
                            \* this instance
    child_n_plans,          \* self.algorithms["Best of N"].n_plans
    child_max_iterations,   \* self.algorithms["REBASE"].max_iterations
    moa_problem,            \* run: problem_statement, a list of characters
    moa_observers,          \* self._observers
    moa_received,           \* observer -> the events its update was given
    moa_raised,             \* the exception run has raised, "None" without
    moa_called,             \* history: the constraint agent or the model
                            \* has been called
    responses,              \* history: the model's answers to the selections
    switch_skipped,         \* history: algorithm_switch_skipped was notified
    \* ---- REBASE._verify_plan (plangen/algorithms/rebase.py) ----
    vp_response,               \* _verify_plan: response, a list of pieces of text
    vp_pc,                  \* where _verify_plan is
    vp_score,               \* the score _verify_plan has returned
    vp_raised,              \* the exception _verify_plan has raised
    \* ---- PlanGEN.solve_stream (plangen/plangen.py) ----
    stream_pc,              \* where solve_stream is
    stream_step,            \* the number of the step solve_stream is at
    stream_state,           \* solve_stream: state
    stream_updates,         \* the updates solve_stream has yielded
    \* ---- MixtureOfAlgorithms.__init__ (plangen/algorithms/mixture_of_algorithms.py) ----
    moa_kwargs,             \* __init__: the keywords in kwargs
    selection_agent,        \* __init__: selection_agent, then self.selection_agent
    moa_init_pc,            \* where __init__ is
    moa_collaborators,      \* self.llm_interface, self.constraint_agent, self.verification_agent
    moa_children,           \* self.algorithms, as far as constructed
    moa_init_raised,        \* the exception __init__ has raised
    \* ---- BestOfN._adaptive_sampling (plangen/algorithms/best_of_n.py) ----
    as_temperature,         \* self.temperature of the adaptive BestOfN
    as_n_plans,             \* self.n_plans of the adaptive BestOfN
    as_pc,                  \* where the loop of _sequential_generate is
    as_results,             \* _sequential_generate: the scores of results
    as_outcome,             \* the template the last sampling call rendered
    as_temperatures,        \* the temperatures of the generations of the last sampling call
    \* ---- Observable (plangen/visualization/observers.py) ----
    obs_observers,          \* self._observers of the Observable
    obs_received,           \* the events each observer's update was given
    obs_updates,            \* the calls of update made, in order
    obs_call,               \* the last call made on the Observable
    obs_prev,               \* self._observers and the calls of update before the last call
    obs_since,              \* for each observer the number of the call that registered it, 0 if it is not registered
    obs_clock               \* the number of calls made

ucbVars == << counts, values, total_pulls, exploration_weight, ucb_call,
              ucb_ret, reward_sum,
              updates, exact_values, loop_only,
              ucb_scores_ret >>

bonCallVars == << bon_constraint_calls, bon_sample_calls, bon_verify_calls >>

bonObsVars == << bon_problem, bon_observers, bon_received, bon_raised,
                 bon_called, overtaken, bonCallVars >>

bonVars == << n_plans, sampling_strategy, parallel, bon_pc, results,
              results_so_far, futures, best_idx, best_plan, best_score,
              bonObsVars >>

rebObsVars == << reb_problem, reb_observers, reb_received, reb_raised,
                 reb_called >>

rebCallVars == << reb_verifier_calls, reb_llm_verify_calls >>

rebVars == << max_iterations, improvement_threshold, reb_pc, current_plan,
              current_score, iterations, iteration, rebObsVars, rebCallVars >>

totObsVars == << tot_problem, tot_observers, tot_received, tot_raised,
                 tot_called >>

totVars == << branching_factor, max_depth, beam_width, tot_pc, beam,
              next_beam, depth, node_idx, tot_best_plan, tot_best_score,
              all_paths, levels, generate_calls, evaluate_calls,
              verify_calls, totObsVars >>

\* What the actions of one component leave alone: the other components.
moaObsVars == << moa_problem, moa_observers, moa_received, moa_raised,
                 moa_called, child_observers, child_published, moa_run >>

moaChildVars == << child_n_plans, child_max_iterations >>

moaVars == << max_algorithm_switches, moa_pc, current_algorithm_name,
              moa_current_plan, moa_current_score, algorithm_history,
              moa_iterations, moa_iteration, responses, switch_skipped,
              moaObsVars, moaChildVars >>

divVars == << min_similarity, max_retries, previous_plans,
              template_rendered, div_pc, attempts, sampled, div_raised >>

vpVars == << vp_response, vp_pc, vp_score, vp_raised >>

ssVars == << stream_pc, stream_step, stream_state, stream_updates >>

mcVars == << moa_kwargs, selection_agent, moa_init_pc, moa_collaborators, moa_children, moa_init_raised >>

asVars == << as_temperature, as_n_plans, as_pc, as_results, as_outcome, as_temperatures >>

obsVars == << obs_observers, obs_received, obs_updates, obs_call, obs_prev, obs_since, obs_clock >>

notUcbVars == << bonVars, divVars, rebVars, totVars, moaVars, vpVars, ssVars, mcVars, asVars, obsVars >>

notBonVars == << ucbVars, divVars, rebVars, totVars, moaVars, vpVars, ssVars, mcVars, asVars, obsVars >>

notDivVars == << ucbVars, bonVars, rebVars, totVars, moaVars, vpVars, ssVars, mcVars, asVars, obsVars >>

notRebVars == << ucbVars, bonVars, divVars, totVars, moaVars, vpVars, ssVars, mcVars, asVars, obsVars >>

notTotVars == << ucbVars, bonVars, divVars, rebVars, moaVars, vpVars, ssVars, mcVars, asVars, obsVars >>

notMoaVars == << ucbVars, bonVars, divVars, rebVars, totVars, vpVars, ssVars, mcVars, asVars, obsVars >>

notVpVars == << ucbVars, bonVars, divVars, rebVars, totVars, moaVars, ssVars, mcVars, asVars, obsVars >>

notSsVars == << ucbVars, bonVars, divVars, rebVars, totVars, moaVars, vpVars, mcVars, asVars, obsVars >>

notMcVars == << ucbVars, bonVars, divVars, rebVars, totVars, moaVars, vpVars, ssVars, asVars, obsVars >>

notAsVars == << ucbVars, bonVars, divVars, rebVars, totVars, moaVars, vpVars, ssVars, mcVars, obsVars >>

notObsVars == << ucbVars, bonVars, divVars, rebVars, totVars, moaVars, vpVars, ssVars, mcVars, asVars >>

vars == << counts, values, total_pulls, exploration_weight, ucb_call,
           ucb_ret, reward_sum,
           updates, exact_values, loop_only, ucb_scores_ret,
           n_plans, sampling_strategy, parallel, bon_pc, results,
           results_so_far, futures, best_idx, best_plan, best_score,
           bon_problem, bon_observers, bon_received, bon_raised, bon_called,
           overtaken, bon_constraint_calls, bon_sample_calls,
           bon_verify_calls,
           min_similarity, max_retries, previous_plans, template_rendered,
           div_pc, attempts, sampled, div_raised,
           max_iterations, improvement_threshold, reb_pc, current_plan,
           current_score, iterations, iteration,
           reb_problem, reb_observers, reb_received, reb_raised, reb_called,
           reb_verifier_calls, reb_llm_verify_calls,
           branching_factor, max_depth, beam_width, tot_pc, beam,
           next_beam, depth, node_idx, tot_best_plan, tot_best_score,
           all_paths, levels, generate_calls, evaluate_calls, verify_calls,
           tot_problem, tot_observers, tot_received, tot_raised, tot_called,
           max_algorithm_switches, moa_pc, current_algorithm_name,
           moa_current_plan, moa_current_score, algorithm_history,
           moa_iterations, moa_iteration, responses, switch_skipped,
           moa_problem, moa_observers, moa_received, moa_raised, moa_called,
           child_observers, child_published, moa_run,
           child_n_plans, child_max_iterations,
           vp_response, vp_pc, vp_score, vp_raised,
           stream_pc, stream_step, stream_state, stream_updates,
           moa_kwargs, selection_agent, moa_init_pc, moa_collaborators, moa_children, moa_init_raised,
           as_temperature, as_n_plans, as_pc, as_results, as_outcome, as_temperatures,
           obs_observers, obs_received, obs_updates, obs_call, obs_prev, obs_since, obs_clock >>

(***************************************************************************)
(* Problem statements, observers and exceptions                            *)
(***************************************************************************)
\* The problem statements given to run, as lists of characters: the empty
\* one, a blank one and a text.
Problems == { << >>, << " " >>, << " ", "p" >> }

RECURSIVE LStrip(_)
LStrip(s) == IF s # << >> /\ Head(s) = " " THEN LStrip(Tail(s)) ELSE s

RECURSIVE RStrip(_)
RStrip(s) ==
    IF s # << >> /\ s[Len(s)] = " "
    THEN RStrip(SubSeq(s, 1, Len(s) - 1))
    ELSE s

\* str.strip()
Strip(s) == RStrip(LStrip(s))

\* The observers there are; each records the events its update is given.
Observers == { "o1", "o2" }

\* Observable.__init__: no observer.
NoObservers == << >>

\* What no observer has received yet.
NothingReceived == [o \in Observers |-> << >>]

\* The exceptions a call of the constraint agent, of the model or of the
\* verification agent raises: LLMInterface.generate raises ValueError, the
\* provider's client raises classes of its own such as ConnectionError.
ExceptionTypes == { "ValueError", "ConnectionError" }

\* An add_observer that appends without looking for the observer.
AddObserverAgain(observers, observer) == Append(observers, observer)

\* Observable.add_observer
AddObserver(observers, observer) ==
    IF \E i \in DOMAIN observers : observers[i] = observer
    THEN observers
    ELSE Append(observers, observer)

\* Observable.notify_observers with recording observers: every observer of
\* the list is given the event, once for each place it has in the list.
RECURSIVE NotifyFrom(_, _, _, _)
NotifyFrom(observers, i, received, plan_data) ==
    IF i > Len(observers) THEN received
    ELSE NotifyFrom(observers, i + 1,
                    [received EXCEPT ![observers[i]] = Append(@, plan_data)],
                    plan_data)

NotifyObservers(observers, received, plan_data) ==
    NotifyFrom(observers, 1, received, plan_data)

\* The dictionary given to notify_observers: its algorithm_type and event.
Event(algorithm_type, event) ==
    [algorithm_type |-> algorithm_type, event |-> event]

(***************************************************************************)
(* UCB                                                                     *)
(***************************************************************************)
\* The arms, in the order of the list given to UCB.__init__.
algorithm_names == << "Best of N", "Tree of Thought", "REBASE" >>

Arms == { algorithm_names[i] : i \in 1 .. Len(algorithm_names) }

\* Position of an arm in algorithm_names (dict order of counts and values).
ArmIndex(a) == CHOOSE i \in 1 .. Len(algorithm_names) : algorithm_names[i] = a

\* Rewards given to update: verifier scores on the 0..100 scale.
Rewards == { 50, 100 }

\* Rewards given to update of either sign.
SignedRewards == { -50, -20, 50 }

\* update is called at most this many times.
MaxTotalPulls == 5

\* Fractions p / q of integers, q > 0, in lowest terms: the numbers of the
\* update rule in exact arithmetic.
RECURSIVE Gcd(_, _)
Gcd(a, b) == IF b = 0 THEN a ELSE Gcd(b, a % b)

QNorm(p, q) ==
    LET g == Gcd(IF p < 0 THEN -p ELSE p, q)
    IN  [p |-> p \div g, q |-> q \div g]

QFromInt(i) == [p |-> i, q |-> 1]

QDivInt(a, n) == QNorm(a, n)

QMul(x, y) == QNorm(x.p * y.p, x.q * y.q)

QAdd(x, y) == QNorm(x.p * y.q + y.p * x.q, x.q * y.q)

\* Values of exploration_weight; 2.0 is the default.
ExplorationWeights == { 0, 2 }

\* UCB.__init__ with its default weight.
UcbConfigDefault == exploration_weight = 2

\* The state of a bandit after __init__; the weight is what it was given.
\* Values below every reward.
InitialValuesLow == [a \in Arms |-> FFromInt(-1000)]

\* dict.fromkeys(algorithm_names, 0.0)
InitialValues == [a \in Arms |-> FZero]

UcbFresh ==
    /\ counts = [a \in Arms |-> 0]
    /\ values = InitialValues
    /\ total_pulls = 0
    /\ ucb_call = "__init__"
    /\ ucb_ret = "None"
    /\ reward_sum = [a \in Arms |-> 0]
    /\ updates = [a \in Arms |-> 0]
    /\ exact_values = [a \in Arms |-> QFromInt(0)]
    /\ loop_only = TRUE
    /\ ucb_scores_ret = << >>

UCBInit ==
    /\ exploration_weight \in ExplorationWeights
    /\ UcbFresh

\* A select_algorithm that returns the head of the list while any arm is
\* untried, instead of the untried arm.
FirstUntriedHead(cnts) ==
    IF \E a \in Arms : cnts[a] = 0 THEN algorithm_names[1] ELSE "None"

\* select_algorithm, first loop: the first arm never tried, "None" if every
\* arm has been tried.
FirstUntried(cnts) ==
    IF \E a \in Arms : cnts[a] = 0
    THEN algorithm_names[CHOOSE i \in 1 .. Len(algorithm_names) :
            /\ cnts[algorithm_names[i]] = 0
            /\ \A j \in 1 .. (i - 1) : cnts[algorithm_names[j]] # 0]
    ELSE "None"

\* The pairs of (total_pulls, count, exploration_weight) and
\* self.exploration_weight * math.sqrt(math.log(self.total_pulls) / count),
\* for every total and count of the model.
ExplorationTable ==
    { << tc, FMul(FFromInt(tc[3]),
                  FSqrt(FDivFloatInt(FLog(tc[1]), tc[2]))) >> :
        tc \in { x \in (1 .. MaxTotalPulls) \X (1 .. MaxTotalPulls)
                         \X ExplorationWeights : x[2] <= x[1] } }

\* exploration = self.exploration_weight * math.sqrt(...)
Exploration(total, count, w) ==
    (CHOOSE p \in ExplorationTable : p[1] = << total, count, w >>)[2]

\* float("inf"): above every float.
FInf == [neg |-> FALSE, m |-> << 1 >>, e |-> 2000]

\* get_ucb_scores: inf for an arm that was not pulled, and for the others
\* the score select_algorithm computes.
GetUcbScores(cnts, vals, total, w) ==
    [a \in Arms |->
        IF cnts[a] = 0 THEN FInf
        ELSE FAdd(vals[a], Exploration(total, cnts[a], w))]

\* ucb_scores[algo] = exploitation + exploration, for every arm.
UcbScores(cnts, vals, total, w) ==
    [a \in Arms |-> FAdd(vals[a], Exploration(total, cnts[a], w))]

\* The last of the arms of the highest score.
MaxUcbScoreLast(ucb_scores) ==
    algorithm_names[CHOOSE i \in 1 .. Len(algorithm_names) :
        /\ \A j \in 1 .. Len(algorithm_names) :
              ~FGt(ucb_scores[algorithm_names[j]],
                   ucb_scores[algorithm_names[i]])
        /\ \A j \in (i + 1) .. Len(algorithm_names) :
              FGt(ucb_scores[algorithm_names[i]],
                  ucb_scores[algorithm_names[j]])]

\* max(ucb_scores.items(), key=lambda x: x[1])[0]: the first arm, in dict
\* order, whose score no other arm exceeds.
MaxUcbScore(ucb_scores) ==
    algorithm_names[CHOOSE i \in 1 .. Len(algorithm_names) :
        /\ \A j \in 1 .. Len(algorithm_names) :
              ~FGt(ucb_scores[algorithm_names[j]],
                   ucb_scores[algorithm_names[i]])
        /\ \A j \in 1 .. (i - 1) :
              FGt(ucb_scores[algorithm_names[i]],
                  ucb_scores[algorithm_names[j]])]

\* select_algorithm: the first arm never tried, and with every arm tried the
\* arm of the highest UCB score.
SelectAlgorithm(cnts, vals, total, w) ==
    IF FirstUntried(cnts) # "None" THEN FirstUntried(cnts)
    ELSE MaxUcbScore(UcbScores(cnts, vals, total, w))

\* ((n - 1) / n) * value + (1 / n) * reward in exact arithmetic.
RunningMeanExact(n, value, reward) ==
    QAdd(QMul(QDivInt(n - 1, n), value),
         QMul(QDivInt(1, n), QFromInt(reward)))

\* An update that adds the weighted reward to the unweighted old mean.
RunningMeanUnweighted(n, value, reward) ==
    FAdd(value, FMul(FDivInt(1, n), FFromInt(reward)))

\* self.values[algorithm] = ((n - 1) / n) * value + (1 / n) * reward
RunningMean(n, value, reward) ==
    FAdd(FMul(FDivInt(n - 1, n), value),
         FMul(FDivInt(1, n), FFromInt(reward)))

\* A get_best_algorithm that keeps the last of several maximal arms.
GetBestAlgorithmLast(vals) ==
    algorithm_names[CHOOSE i \in 1 .. Len(algorithm_names) :
        /\ \A j \in 1 .. Len(algorithm_names) :
              ~FGt(vals[algorithm_names[j]], vals[algorithm_names[i]])
        /\ \A j \in (i + 1) .. Len(algorithm_names) :
              FGt(vals[algorithm_names[i]], vals[algorithm_names[j]])]

\* max(self.values.items(), key=lambda x: x[1])[0]: the first arm, in dict
\* order, whose stored mean no other arm exceeds.
GetBestAlgorithm(vals) ==
    algorithm_names[CHOOSE i \in 1 .. Len(algorithm_names) :
        /\ \A j \in 1 .. Len(algorithm_names) :
              ~FGt(vals[algorithm_names[j]], vals[algorithm_names[i]])
        /\ \A j \in 1 .. (i - 1) :
              FGt(vals[algorithm_names[i]], vals[algorithm_names[j]])]

\* A query changes nothing of the bandit, so an update made after a query
\* leads where it leads without the query: the caller's next call after a
\* query is taken from the state before it, except in the loop
\* "arm = select_algorithm(); update(arm, reward)".
UcbIdle == ucb_call \in { "__init__", "update" }

UcbSelectAlgorithm ==
    /\ UcbIdle
    /\ ucb_ret' = SelectAlgorithm(counts, values, total_pulls,
                                  exploration_weight)
    /\ ucb_call' = "select_algorithm"
    /\ UNCHANGED << counts, values, total_pulls, exploration_weight,
                    reward_sum, updates, exact_values, loop_only,
                    ucb_scores_ret >>
    /\ UNCHANGED notUcbVars

UcbGetBestAlgorithm ==
    /\ UcbIdle
    /\ ucb_ret' = GetBestAlgorithm(values)
    /\ ucb_call' = "get_best_algorithm"
    /\ UNCHANGED << counts, values, total_pulls, exploration_weight,
                    reward_sum, updates, exact_values, loop_only,
                    ucb_scores_ret >>
    /\ UNCHANGED notUcbVars

\* get_ucb_scores()
UcbGetUcbScores ==
    /\ UcbIdle
    /\ ucb_scores_ret' = << GetUcbScores(counts, values, total_pulls,
                                         exploration_weight) >>
    /\ ucb_ret' = "None"
    /\ ucb_call' = "get_ucb_scores"
    /\ UNCHANGED << counts, values, total_pulls, exploration_weight,
                    reward_sum, updates, exact_values, loop_only >>
    /\ UNCHANGED notUcbVars

\* update without the count of all pulls.
UpdateForgetsTotal(algorithm, reward) ==
    /\ total_pulls < MaxTotalPulls
    /\ counts' = [counts EXCEPT ![algorithm] = @ + 1]
    /\ total_pulls' = total_pulls
    /\ values' = [values EXCEPT
                    ![algorithm] = RunningMean(counts'[algorithm], @, reward)]
    /\ reward_sum' = [reward_sum EXCEPT ![algorithm] = @ + reward]
    /\ updates' = [updates EXCEPT ![algorithm] = @ + 1]
    /\ exact_values' = [exact_values EXCEPT
          ![algorithm] = RunningMeanExact(counts'[algorithm], @, reward)]
    /\ ucb_call' = "update"
    /\ ucb_ret' = "None"
    /\ UNCHANGED << exploration_weight, ucb_scores_ret >>

Update(algorithm, reward) ==
    /\ total_pulls < MaxTotalPulls
    /\ counts' = [counts EXCEPT ![algorithm] = @ + 1]
    /\ total_pulls' = total_pulls + 1
    /\ values' = [values EXCEPT
                    ![algorithm] = RunningMean(counts'[algorithm], @, reward)]
    /\ reward_sum' = [reward_sum EXCEPT ![algorithm] = @ + reward]
    /\ updates' = [updates EXCEPT ![algorithm] = @ + 1]
    /\ exact_values' = [exact_values EXCEPT
          ![algorithm] = RunningMeanExact(counts'[algorithm], @, reward)]
    /\ ucb_call' = "update"
    /\ ucb_ret' = "None"
    /\ UNCHANGED << exploration_weight, ucb_scores_ret >>

\* update(arm, reward) for any arm.
UcbUpdate ==
    /\ UcbIdle
    /\ \E a \in Arms, r \in Rewards : Update(a, r)
    /\ loop_only' = FALSE
    /\ UNCHANGED notUcbVars

\* update(arm, reward) for the arm select_algorithm has just returned.
\* update(algorithm, reward) with a reward of either sign.
UcbUpdateSigned ==
    /\ UcbIdle
    /\ \E a \in Arms, r \in SignedRewards : Update(a, r)
    /\ loop_only' = FALSE
    /\ UNCHANGED notUcbVars

UcbUpdateSelected ==
    /\ ucb_call = "select_algorithm"
    /\ \E r \in Rewards : Update(ucb_ret, r)
    /\ UNCHANGED loop_only
    /\ UNCHANGED notUcbVars

UCBNext ==
    \/ UcbSelectAlgorithm
    \/ UcbGetBestAlgorithm
    \/ UcbGetUcbScores
    \/ UcbUpdate
    \/ UcbUpdateSelected

\* The calls on a bandit that is given rewards of either sign.
UCBSignedNext ==
    \/ UcbSelectAlgorithm
    \/ UcbGetBestAlgorithm
    \/ UcbGetUcbScores
    \/ UcbUpdateSigned

(***************************************************************************)
(* BestOfN                                                                 *)
(***************************************************************************)
\* Texts the generative model returns as plans.
PlanTexts == { "plan A", "plan B" }

\* Scores the plan verifier returns.
Scores == { 10, 30, 90 }

\* n_plans is at most this.
MaxNPlans == 4

SAMPLING_STRATEGIES == { "basic", "diverse", "adaptive" }

\* The lists of observers a BestOfN is run with.
ObserverLists == { NoObservers, << "o1", "o2" >> }

\* n_plans of the runs in parallel basic mode that have observers.
ObservedWorkerCounts == 0 .. 2

\* The state of a BestOfN whose run has not been called; the configuration
\* is what __init__ was given.
BonIdle ==
    /\ bon_pc = "start"
    /\ results = << >>
    /\ results_so_far = << >>
    /\ futures = << >>
    /\ best_idx = -1
    /\ best_plan = "None"
    /\ best_score = -1
    /\ bon_received = NothingReceived
    /\ bon_raised = "None"
    /\ bon_called = FALSE
    /\ overtaken = FALSE
    /\ bon_constraint_calls = 0
    /\ bon_sample_calls = 0
    /\ bon_verify_calls = 0

\* BestOfN.__init__ with its defaults.
BonConfigDefault ==
    /\ n_plans = 3
    /\ sampling_strategy = "basic"
    /\ parallel = FALSE
    /\ bon_problem = << "p" >>
    /\ bon_observers = NoObservers

BonInit ==
    /\ n_plans \in 0 .. MaxNPlans
    /\ sampling_strategy \in SAMPLING_STRATEGIES
    /\ parallel \in BOOLEAN
    /\ bon_problem \in Problems
    /\ bon_observers \in ObserverLists
    /\ (parallel /\ sampling_strategy = "basic"
           /\ bon_observers # NoObservers)
          => n_plans \in ObservedWorkerCounts
    /\ BonIdle

\* The scores of a list of results.
ScoresOf(rs) == [i \in 1 .. Len(rs) |-> rs[i].score]

\* A best index that keeps the last of several maximal scores.
BestIndexLast(scores) ==
    (CHOOSE i \in 1 .. Len(scores) :
        /\ \A j \in 1 .. Len(scores) : scores[j] <= scores[i]
        /\ \A j \in (i + 1) .. Len(scores) : scores[j] < scores[i]) - 1

\* max(range(len(scores)), key=lambda i: scores[i]): the first index, from
\* 0, of a maximal score.
BestIndex(scores) ==
    (CHOOSE i \in 1 .. Len(scores) :
        /\ \A j \in 1 .. Len(scores) : scores[j] <= scores[i]
        /\ \A j \in 1 .. (i - 1) : scores[j] < scores[i]) - 1

\* except (RuntimeError, ValueError) of run: these two leave run as
\* RuntimeError, any other exception as it is.
RunRaises(e) ==
    IF e \in { "RuntimeError", "ValueError" } THEN "RuntimeError" ELSE e

\* One dictionary that every task publishes.
PlanEventShared(event, plan_id, worker) ==
    [algorithm_type |-> "BestOfN", event |-> event, plan_id |-> plan_id,
     worker |-> 0]

\* The dictionary of a plan_generation_start or plan_generation_complete
\* event.  worker is the task that built the dictionary, 0 for the thread
\* of run: it stands for the identity of the object.
PlanEvent(event, plan_id, worker) ==
    [algorithm_type |-> "BestOfN", event |-> event, plan_id |-> plan_id,
     worker |-> worker]

\* A _verify_plan that asks the verification agent twice.
VerifyPlanCallsTwice(calls) == calls + 2

\* BaseAlgorithm._verify_plan: one call of verification_agent.run.
VerifyPlanCalls(calls) == calls + 1

\* run with an empty or blank problem statement: ValueError, raised before
\* the try statement.
BonRejectEmpty ==
    /\ bon_pc = "start"
    /\ Strip(bon_problem) = << >>
    /\ bon_raised' = "ValueError"
    /\ bon_pc' = "raised"
    /\ UNCHANGED << n_plans, sampling_strategy, parallel, results,
                    results_so_far, futures, best_idx, best_plan, best_score >>
    /\ UNCHANGED << bon_problem, bon_observers, bon_received, bon_called >>
    /\ UNCHANGED overtaken
    /\ UNCHANGED bonCallVars
    /\ UNCHANGED notBonVars

\* run up to the choice of sample_fn: the constraints are extracted and the
\* start is notified.
BonStart ==
    /\ bon_pc = "start"
    /\ Strip(bon_problem) # << >>
    /\ bon_pc' = "generate"
    /\ bon_called' = TRUE
    /\ bon_received' = NotifyObservers(bon_observers, bon_received,
                                       Event("BestOfN", "algorithm_start"))
    /\ UNCHANGED << n_plans, sampling_strategy, parallel, results,
                    results_so_far, futures, best_idx, best_plan, best_score >>
    /\ UNCHANGED << bon_problem, bon_observers, bon_raised >>
    /\ UNCHANGED overtaken
    /\ bon_constraint_calls' = bon_constraint_calls + 1
    /\ UNCHANGED << bon_sample_calls, bon_verify_calls >>
    /\ UNCHANGED notBonVars

\* run, the constraint agent raises.
BonStartRaises ==
    /\ bon_pc = "start"
    /\ Strip(bon_problem) # << >>
    /\ \E e \in ExceptionTypes : bon_raised' = RunRaises(e)
    /\ bon_called' = TRUE
    /\ bon_pc' = "raised"
    /\ UNCHANGED << n_plans, sampling_strategy, parallel, results,
                    results_so_far, futures, best_idx, best_plan, best_score >>
    /\ UNCHANGED << bon_problem, bon_observers, bon_received >>
    /\ UNCHANGED overtaken
    /\ bon_constraint_calls' = bon_constraint_calls + 1
    /\ UNCHANGED << bon_sample_calls, bon_verify_calls >>
    /\ UNCHANGED notBonVars

\* A turn of the loop that notifies the completion before the start.
BonSequentialGenerateCompleteFirst ==
    /\ bon_pc = "generate"
    /\ ~parallel
    /\ Len(results) < n_plans
    /\ \E plan \in PlanTexts, score \in Scores :
          results' = Append(results, [plan |-> plan, score |-> score])
    /\ bon_received' =
          NotifyObservers(bon_observers,
              NotifyObservers(bon_observers, bon_received,
                  PlanEvent("plan_generation_complete", Len(results), 0)),
              PlanEvent("plan_generation_start", Len(results), 0))
    /\ UNCHANGED << n_plans, sampling_strategy, parallel, bon_pc,
                    results_so_far, futures, best_idx, best_plan, best_score >>
    /\ UNCHANGED << bon_problem, bon_observers, bon_raised, bon_called >>
    /\ UNCHANGED overtaken
    /\ bon_sample_calls' = bon_sample_calls + 1
    /\ bon_verify_calls' = VerifyPlanCalls(bon_verify_calls)
    /\ UNCHANGED bon_constraint_calls
    /\ UNCHANGED notBonVars

\* _sequential_generate, one turn of its loop: the start is notified, a plan
\* is sampled, verified and appended, and the completion is notified.
BonSequentialGenerate ==
    /\ bon_pc = "generate"
    /\ ~parallel
    /\ Len(results) < n_plans
    /\ \E plan \in PlanTexts, score \in Scores :
          results' = Append(results, [plan |-> plan, score |-> score])
    /\ bon_received' =
          NotifyObservers(bon_observers,
              NotifyObservers(bon_observers, bon_received,
                  PlanEvent("plan_generation_start", Len(results), 0)),
              PlanEvent("plan_generation_complete", Len(results), 0))
    /\ UNCHANGED << n_plans, sampling_strategy, parallel, bon_pc,
                    results_so_far, futures, best_idx, best_plan, best_score >>
    /\ UNCHANGED << bon_problem, bon_observers, bon_raised, bon_called >>
    /\ UNCHANGED overtaken
    /\ bon_sample_calls' = bon_sample_calls + 1
    /\ bon_verify_calls' = VerifyPlanCalls(bon_verify_calls)
    /\ UNCHANGED bon_constraint_calls
    /\ UNCHANGED notBonVars

\* _sequential_generate, a turn of its loop in which the model or the
\* verification agent raises, after the start was notified.
BonSequentialRaises ==
    /\ bon_pc = "generate"
    /\ ~parallel
    /\ Len(results) < n_plans
    /\ \E e \in ExceptionTypes : bon_raised' = RunRaises(e)
    /\ bon_received' =
          NotifyObservers(bon_observers, bon_received,
              PlanEvent("plan_generation_start", Len(results), 0))
    /\ bon_pc' = "raised"
    /\ UNCHANGED << n_plans, sampling_strategy, parallel, results,
                    results_so_far, futures, best_idx, best_plan, best_score >>
    /\ UNCHANGED << bon_problem, bon_observers, bon_called >>
    /\ UNCHANGED overtaken
    /\ bon_sample_calls' = bon_sample_calls + 1
    /\ \E in_verify_plan \in BOOLEAN :
          bon_verify_calls' =
             IF in_verify_plan THEN VerifyPlanCalls(bon_verify_calls)
             ELSE bon_verify_calls
    /\ UNCHANGED bon_constraint_calls
    /\ UNCHANGED notBonVars

\* A loop that waits for no result before it submits the next task.
WaitsForEachResultNever(strategy) == FALSE

\* if self.sampling_strategy in ["diverse", "adaptive"]: the loop of
\* _parallel_generate waits for the result of the task it has submitted.
WaitsForEachResult(strategy) == strategy \in { "diverse", "adaptive" }

\* _parallel_generate, executor.submit: the task gets a copy of
\* results_so_far.  With diverse or adaptive sampling the loop has waited for
\* the result of the task before.
BonSubmit ==
    /\ bon_pc = "generate"
    /\ parallel
    /\ Len(futures) < n_plans
    /\ WaitsForEachResult(sampling_strategy)
          => Len(results_so_far) = Len(futures)
    /\ futures' = Append(futures, [st |-> "submitted",
                                   previous_results |-> results_so_far,
                                   plan |-> "None", score |-> -1,
                                   notified |-> 0, exc |-> "None"])
    /\ UNCHANGED << n_plans, sampling_strategy, parallel, bon_pc, results,
                    results_so_far, best_idx, best_plan, best_score >>
    /\ UNCHANGED << bon_problem, bon_observers, bon_received, bon_raised,
                    bon_called >>
    /\ UNCHANGED overtaken
    /\ UNCHANGED bonCallVars
    /\ UNCHANGED notBonVars

\* Task k ends while a task submitted before it has not ended.
Overtakes(fs, k) ==
    \E j \in 1 .. (k - 1) : fs[j].st \notin { "done", "failed" }

\* The results of the tasks in the reverse of the order of submission.
CollectResultsReversed(fs) ==
    [k \in 1 .. Len(fs) |-> [plan |-> fs[Len(fs) + 1 - k].plan,
                             score |-> fs[Len(fs) + 1 - k].score]]

\* notify_observers in a worker, one turn of its loop: the next observer is
\* given the event of the worker, plan_generation_start before the plan is
\* sampled and plan_generation_complete after it is verified; plan_id is the
\* number of previous results.  After the last observer of the completion
\* _generate_and_verify returns.
BonWorkerNotify ==
    /\ \E k \in 1 .. Len(futures) :
          /\ futures[k].st \in { "submitted", "verified" }
          /\ futures[k].notified < Len(bon_observers)
          /\ bon_received' =
                [bon_received EXCEPT
                    ![bon_observers[futures[k].notified + 1]] =
                        Append(@, PlanEvent(
                            IF futures[k].st = "submitted"
                            THEN "plan_generation_start"
                            ELSE "plan_generation_complete",
                            Len(futures[k].previous_results), k))]
          /\ futures' =
                [futures EXCEPT
                    ![k].notified = @ + 1,
                    ![k].st = IF /\ futures[k].st = "verified"
                                 /\ futures[k].notified + 1
                                       = Len(bon_observers)
                              THEN "done" ELSE @]
          /\ overtaken' =
                IF /\ futures[k].st = "verified"
                   /\ futures[k].notified + 1 = Len(bon_observers)
                THEN overtaken \/ Overtakes(futures, k)
                ELSE overtaken
    /\ UNCHANGED << n_plans, sampling_strategy, parallel, bon_pc, results,
                    results_so_far, best_idx, best_plan, best_score >>
    /\ UNCHANGED << bon_problem, bon_observers, bon_raised, bon_called >>
    /\ UNCHANGED bonCallVars
    /\ UNCHANGED notBonVars

\* _generate_and_verify in a worker: sample_fn returns a plan.
BonWorkerGenerate ==
    /\ \E k \in 1 .. Len(futures) :
          /\ futures[k].st = "submitted"
          /\ futures[k].notified = Len(bon_observers)
          /\ \E plan \in PlanTexts :
                futures' = [futures EXCEPT ![k].st = "generated",
                                           ![k].plan = plan,
                                           ![k].notified = 0]
    /\ UNCHANGED << n_plans, sampling_strategy, parallel, bon_pc, results,
                    results_so_far, best_idx, best_plan, best_score >>
    /\ UNCHANGED << bon_problem, bon_observers, bon_received, bon_raised,
                    bon_called >>
    /\ UNCHANGED overtaken
    /\ bon_sample_calls' = bon_sample_calls + 1
    /\ UNCHANGED << bon_constraint_calls, bon_verify_calls >>
    /\ UNCHANGED notBonVars

\* _generate_and_verify in a worker: _verify_plan returns the score; without
\* observers the task is done.
BonWorkerVerify ==
    /\ \E k \in 1 .. Len(futures) :
          /\ futures[k].st = "generated"
          /\ \E score \in Scores :
                futures' = [futures EXCEPT
                    ![k].st = IF bon_observers = NoObservers
                              THEN "done" ELSE "verified",
                    ![k].score = score]
          /\ overtaken' =
                IF bon_observers = NoObservers
                THEN overtaken \/ Overtakes(futures, k)
                ELSE overtaken
    /\ UNCHANGED << n_plans, sampling_strategy, parallel, bon_pc, results,
                    results_so_far, best_idx, best_plan, best_score >>
    /\ UNCHANGED << bon_problem, bon_observers, bon_received, bon_raised,
                    bon_called >>
    /\ bon_verify_calls' = VerifyPlanCalls(bon_verify_calls)
    /\ UNCHANGED << bon_constraint_calls, bon_sample_calls >>
    /\ UNCHANGED notBonVars

\* _generate_and_verify in a worker: sample_fn or _verify_plan raises and
\* the future holds the exception.
BonWorkerRaises ==
    /\ \E k \in 1 .. Len(futures) :
          /\ \/ /\ futures[k].st = "submitted"
                /\ futures[k].notified = Len(bon_observers)
             \/ futures[k].st = "generated"
          /\ IF futures[k].st = "submitted"
             THEN /\ bon_sample_calls' = bon_sample_calls + 1
                  /\ UNCHANGED bon_verify_calls
             ELSE /\ bon_verify_calls' = VerifyPlanCalls(bon_verify_calls)
                  /\ UNCHANGED bon_sample_calls
          /\ \E e \in ExceptionTypes :
                futures' = [futures EXCEPT ![k].st = "failed",
                                           ![k].plan = "None",
                                           ![k].notified = 0,
                                           ![k].exc = e]
          /\ overtaken' = (overtaken \/ Overtakes(futures, k))
    /\ UNCHANGED << n_plans, sampling_strategy, parallel, bon_pc, results,
                    results_so_far, best_idx, best_plan, best_score >>
    /\ UNCHANGED << bon_problem, bon_observers, bon_received, bon_raised,
                    bon_called >>
    /\ UNCHANGED bon_constraint_calls
    /\ UNCHANGED notBonVars

\* The result of a finished task.
FutureResult(f) == [plan |-> f.plan, score |-> f.score]

\* return [f.result() for f in futures]
CollectResults(fs) == [k \in 1 .. Len(fs) |-> FutureResult(fs[k])]

\* _parallel_generate with diverse or adaptive sampling: future.result() of
\* the task just submitted is appended to results_so_far.
BonAwaitResult ==
    /\ bon_pc = "generate"
    /\ parallel
    /\ WaitsForEachResult(sampling_strategy)
    /\ Len(results_so_far) < Len(futures)
    /\ futures[Len(futures)].st = "done"
    /\ results_so_far' =
          Append(results_so_far, FutureResult(futures[Len(futures)]))
    /\ UNCHANGED << n_plans, sampling_strategy, parallel, bon_pc, results,
                    futures, best_idx, best_plan, best_score >>
    /\ UNCHANGED << bon_problem, bon_observers, bon_received, bon_raised,
                    bon_called >>
    /\ UNCHANGED overtaken
    /\ UNCHANGED bonCallVars
    /\ UNCHANGED notBonVars

\* _parallel_generate with diverse or adaptive sampling: future.result() of
\* the task just submitted raises what the task raised.
BonAwaitRaises ==
    /\ bon_pc = "generate"
    /\ parallel
    /\ WaitsForEachResult(sampling_strategy)
    /\ Len(results_so_far) < Len(futures)
    /\ futures[Len(futures)].st = "failed"
    /\ bon_raised' = RunRaises(futures[Len(futures)].exc)
    /\ bon_pc' = "raised"
    /\ UNCHANGED << n_plans, sampling_strategy, parallel, results,
                    results_so_far, futures, best_idx, best_plan, best_score >>
    /\ UNCHANGED << bon_problem, bon_observers, bon_received, bon_called >>
    /\ UNCHANGED overtaken
    /\ UNCHANGED bonCallVars
    /\ UNCHANGED notBonVars

\* _sequential_generate or _parallel_generate returns.  In parallel basic
\* mode the results are [f.result() for f in futures], which waits for every
\* task; otherwise they are results_so_far.
BonGenerateReturn ==
    /\ bon_pc = "generate"
    /\ IF ~parallel
       THEN /\ Len(results) = n_plans
            /\ UNCHANGED results
       ELSE /\ Len(futures) = n_plans
            /\ IF sampling_strategy = "basic"
               THEN /\ \A k \in 1 .. Len(futures) : futures[k].st = "done"
                    /\ results' = CollectResults(futures)
               ELSE /\ Len(results_so_far) = n_plans
                    /\ results' = results_so_far
    /\ bon_pc' = "select"
    /\ UNCHANGED << n_plans, sampling_strategy, parallel, results_so_far,
                    futures, best_idx, best_plan, best_score >>
    /\ UNCHANGED << bon_problem, bon_observers, bon_received, bon_raised,
                    bon_called >>
    /\ UNCHANGED overtaken
    /\ UNCHANGED bonCallVars
    /\ UNCHANGED notBonVars

\* _parallel_generate in basic mode, a task has raised: f.result() of the
\* first such task raises what the task raised, and the executor is left
\* when every task has ended.
BonGenerateRaises ==
    /\ bon_pc = "generate"
    /\ parallel
    /\ sampling_strategy = "basic"
    /\ Len(futures) = n_plans
    /\ \A k \in 1 .. Len(futures) : futures[k].st \in { "done", "failed" }
    /\ \E k \in 1 .. Len(futures) :
          /\ futures[k].st = "failed"
          /\ \A j \in 1 .. (k - 1) : futures[j].st = "done"
          /\ bon_raised' = RunRaises(futures[k].exc)
    /\ bon_pc' = "raised"
    /\ UNCHANGED << n_plans, sampling_strategy, parallel, results,
                    results_so_far, futures, best_idx, best_plan, best_score >>
    /\ UNCHANGED << bon_problem, bon_observers, bon_received, bon_called >>
    /\ UNCHANGED overtaken
    /\ UNCHANGED bonCallVars
    /\ UNCHANGED notBonVars

\* run from zip(*results) on: without results the unpacking raises
\* ValueError, which run turns into RuntimeError; otherwise the best plan is
\* chosen, the selection and the completion are notified and the plan is
\* returned.
BonSelectBest ==
    /\ bon_pc = "select"
    /\ IF results = << >>
       THEN /\ bon_pc' = "raised"
            /\ bon_raised' = RunRaises("ValueError")
            /\ UNCHANGED << best_idx, best_plan, best_score, bon_received >>
       ELSE /\ best_idx' = BestIndex(ScoresOf(results))
            /\ best_plan' = results[best_idx' + 1].plan
            /\ best_score' = results[best_idx' + 1].score
            /\ bon_received' =
                  NotifyObservers(bon_observers,
                      NotifyObservers(bon_observers, bon_received,
                          Event("BestOfN", "best_plan_selected")),
                      Event("BestOfN", "algorithm_complete"))
            /\ bon_pc' = "done"
            /\ UNCHANGED bon_raised
    /\ UNCHANGED << n_plans, sampling_strategy, parallel, results,
                    results_so_far, futures >>
    /\ UNCHANGED << bon_problem, bon_observers, bon_called >>
    /\ UNCHANGED overtaken
    /\ UNCHANGED bonCallVars
    /\ UNCHANGED notBonVars

BonNext ==
    \/ BonRejectEmpty
    \/ BonStart
    \/ BonStartRaises
    \/ BonSequentialGenerate
    \/ BonSequentialRaises
    \/ BonSubmit
    \/ BonWorkerNotify
    \/ BonWorkerGenerate
    \/ BonWorkerVerify
    \/ BonWorkerRaises
    \/ BonAwaitResult
    \/ BonAwaitRaises
    \/ BonGenerateReturn
    \/ BonGenerateRaises
    \/ BonSelectBest

(***************************************************************************)
(* BestOfN._diverse_sampling                                               *)
(*                                                                         *)
(* A plan is its text, a list of characters.  One call of the sampling     *)
(* function for a candidate is followed: what the model returns is chosen  *)
(* from SampledPlans, and whether the template loader finds and renders    *)
(* the template is chosen at the start.                                    *)
(***************************************************************************)
\* The texts the model returns: "", "a", "A", "b", "a b" and "b  A".
SampledPlans ==
    { << >>, << "a" >>, << "A" >>, << "b" >>, << "a", " ", "b" >>,
      << "b", " ", " ", "A" >> }

\* The lists of plans of the previous results.
PreviousPlanLists ==
    { << >> } \cup { << p >> : p \in SampledPlans }
              \cup { << p, q >> : p, q \in SampledPlans }

\* The values of min_similarity as num/den: 0.0, 0.3 (the default) and 1.0.
MinSimilarities == { << 0, 1 >>, << 3, 10 >>, << 1, 1 >> }

\* The values of max_retries.
RetryLimits == 0 .. 2

\* float(kwargs.get("min_similarity", 0.3))
MinSimilarityFloat(r) == FDivInt(r[1], r[2])

\* str.lower
Lower(s) == [i \in DOMAIN s |-> IF s[i] = "A" THEN "a" ELSE s[i]]

\* str.split without argument: the words between runs of blanks.
RECURSIVE SplitFrom(_, _, _, _)
SplitFrom(s, i, word, words) ==
    IF i > Len(s)
    THEN IF word = << >> THEN words ELSE Append(words, word)
    ELSE IF s[i] = " "
         THEN SplitFrom(s, i + 1, << >>,
                        IF word = << >> THEN words ELSE Append(words, word))
         ELSE SplitFrom(s, i + 1, Append(word, s[i]), words)

Split(s) == SplitFrom(s, 1, << >>, << >>)

\* set(plan.lower().split())
PlanWords(plan) ==
    LET words == Split(Lower(plan)) IN { words[i] : i \in DOMAIN words }

\* len(plan_words & prev_words) / len(plan_words | prev_words), for a
\* union that is not empty.
Similarity(plan, prev_plan) ==
    FDivInt(Cardinality(PlanWords(plan) \cap PlanWords(prev_plan)),
            Cardinality(PlanWords(plan) \cup PlanWords(prev_plan)))

\* The division of _is_diverse_enough by len(plan_words | prev_words) = 0.
DividesByZero(plan, prev_plan) ==
    PlanWords(plan) \cup PlanWords(prev_plan) = {}

\* _is_diverse_enough reaches the division by zero: no previous plan before
\* the one that divides by zero has made it return.
RECURSIVE IsDiverseEnoughRaises(_, _, _)
IsDiverseEnoughRaises(plan, previous, threshold) ==
    IF previous = << >> THEN FALSE
    ELSE IF DividesByZero(plan, Head(previous)) THEN TRUE
    ELSE IF FGt(Similarity(plan, Head(previous)), threshold) THEN FALSE
    ELSE IsDiverseEnoughRaises(plan, Tail(previous), threshold)

\* _is_diverse_enough, when it returns: False at the first previous plan
\* whose similarity is greater than min_similarity.
RECURSIVE IsDiverseEnough(_, _, _)
IsDiverseEnough(plan, previous, threshold) ==
    IF previous = << >> THEN TRUE
    ELSE IF FGt(Similarity(plan, Head(previous)), threshold) THEN FALSE
    ELSE IsDiverseEnough(plan, Tail(previous), threshold)

\* BestOfN.__init__ with its defaults, and no call of _diverse_sampling.
DivConfigDefault ==
    /\ min_similarity = << 3, 10 >>
    /\ max_retries = 5
    /\ previous_plans = << >>
    /\ template_rendered = TRUE

DivIdle ==
    /\ div_pc = "start"
    /\ attempts = << >>
    /\ sampled = << >>
    /\ div_raised = "None"

DivInit ==
    /\ min_similarity \in MinSimilarities
    /\ max_retries \in RetryLimits
    /\ previous_plans \in PreviousPlanLists
    /\ template_rendered \in BOOLEAN
    /\ DivIdle

\* _diverse_sampling returns.  Without previous results it is
\* _basic_sampling, one call of the model.  With a rendered template it is
\* one call of the model, whose answer is returned.  Without one, the answer
\* of _generate_plan is returned if _is_diverse_enough, and otherwise the
\* answer of one call of _basic_sampling.
DiverseSampling ==
    /\ div_pc = "start"
    /\ \E plan \in SampledPlans :
          IF previous_plans = << >> \/ template_rendered
          THEN /\ attempts' = << plan >>
               /\ sampled' = plan
          ELSE /\ ~IsDiverseEnoughRaises(plan, previous_plans,
                                         MinSimilarityFloat(min_similarity))
               /\ IF IsDiverseEnough(plan, previous_plans,
                                     MinSimilarityFloat(min_similarity))
                  THEN /\ attempts' = << plan >>
                       /\ sampled' = plan
                  ELSE \E second \in SampledPlans :
                          /\ attempts' = << plan, second >>
                          /\ sampled' = second
    /\ div_pc' = "done"
    /\ UNCHANGED << min_similarity, max_retries, previous_plans,
                    template_rendered, div_raised >>
    /\ UNCHANGED notDivVars

\* _diverse_sampling without a rendered template: the plan and a previous
\* plan have no word, and _is_diverse_enough divides by zero.
DiverseSamplingRaises ==
    /\ div_pc = "start"
    /\ previous_plans # << >>
    /\ ~template_rendered
    /\ \E plan \in SampledPlans :
          /\ IsDiverseEnoughRaises(plan, previous_plans,
                                   MinSimilarityFloat(min_similarity))
          /\ attempts' = << plan >>
    /\ div_raised' = "ZeroDivisionError"
    /\ div_pc' = "raised"
    /\ UNCHANGED << min_similarity, max_retries, previous_plans,
                    template_rendered, sampled >>
    /\ UNCHANGED notDivVars

DivNext ==
    \/ DiverseSampling
    \/ DiverseSamplingRaises

(***************************************************************************)
(* REBASE (iterative refinement)                                           *)
(***************************************************************************)
\* max_iterations is at most this.
MaxIterations == 3

\* Values of improvement_threshold, in score points.  (The default, 0.1,
\* decides like 0 on whole-number scores.)
ImprovementThresholds == { 0, 10 }

\* Scores REBASE._verify_plan returns: it clamps them to 0 .. 100.
RebScores == { 0, 40, 50, 60, 100 }

\* The state of a REBASE whose run has not been called.
RebIdle ==
    /\ reb_pc = "start"
    /\ current_plan = "None"
    /\ current_score = -1
    /\ iterations = << >>
    /\ iteration = 0
    /\ reb_received = NothingReceived
    /\ reb_raised = "None"
    /\ reb_called = FALSE
    /\ reb_verifier_calls = 0
    /\ reb_llm_verify_calls = 0

\* REBASE.__init__ with its defaults (the threshold 0.1 as 0 score points).
RebConfigDefault ==
    /\ max_iterations = 5
    /\ improvement_threshold = 0
    /\ reb_problem = << "p" >>
    /\ reb_observers = NoObservers

RebInit ==
    /\ max_iterations \in 0 .. MaxIterations
    /\ improvement_threshold \in ImprovementThresholds
    /\ reb_problem \in Problems
    /\ reb_observers = << "o1", "o2" >>
    /\ RebIdle

\* A test that lets a refinement of exactly the threshold count as progress.
InsufficientImprovementStrict(refined_score, score, threshold) ==
    refined_score < score + threshold

\* if refined_score <= current_score + self.improvement_threshold
InsufficientImprovement(refined_score, score, threshold) ==
    refined_score <= score + threshold

\* REBASE._verify_plan overrides BaseAlgorithm._verify_plan: it renders the
\* verification template and asks the model once for the verification text;
\* self.verification_agent is not called.
LlmVerifyPlanCalls(calls) == calls + 1

\* A record of the iterations that keeps only the latest refined plan.
TrackLatestIteration(its, plan, score) ==
    IF Len(its) > 1
    THEN [its EXCEPT ![Len(its)] = [plan |-> plan, score |-> score]]
    ELSE Append(its, [plan |-> plan, score |-> score])

\* iterations.append({"plan": refined_plan, "score": refined_score, ...})
TrackIteration(its, plan, score) ==
    Append(its, [plan |-> plan, score |-> score])

\* run up to the initial plan: the constraints are extracted and the start
\* is notified.
RebStart ==
    /\ reb_pc = "start"
    /\ reb_pc' = "initial"
    /\ reb_called' = TRUE
    /\ reb_received' = NotifyObservers(reb_observers, reb_received,
                                       Event("REBASE", "algorithm_start"))
    /\ UNCHANGED << max_iterations, improvement_threshold, current_plan,
                    current_score, iterations, iteration >>
    /\ UNCHANGED << reb_problem, reb_observers, reb_raised >>
    /\ UNCHANGED rebCallVars
    /\ UNCHANGED notRebVars

\* The initial plan is generated and verified and is the first iteration.
RebInitialPlan ==
    /\ reb_pc = "initial"
    /\ \E plan \in PlanTexts, score \in RebScores :
          /\ current_plan' = plan
          /\ current_score' = score
          /\ iterations' = << [plan |-> plan, score |-> score] >>
    /\ iteration' = 0
    /\ reb_pc' = "refine"
    /\ reb_received' = NotifyObservers(reb_observers, reb_received,
                                       Event("REBASE", "initial_plan"))
    /\ UNCHANGED << max_iterations, improvement_threshold >>
    /\ UNCHANGED << reb_problem, reb_observers, reb_raised, reb_called >>
    /\ reb_llm_verify_calls' = LlmVerifyPlanCalls(reb_llm_verify_calls)
    /\ UNCHANGED reb_verifier_calls
    /\ UNCHANGED notRebVars

\* One turn of the refinement loop: the current plan is refined, the refined
\* plan verified and recorded; the loop is left if the improvement is
\* insufficient, and otherwise the refined plan becomes the current plan.
RebRefine ==
    /\ reb_pc = "refine"
    /\ iteration < max_iterations
    /\ \E refined_plan \in PlanTexts, refined_score \in RebScores :
          /\ iterations' = TrackIteration(iterations, refined_plan,
                                           refined_score)
          /\ IF InsufficientImprovement(refined_score, current_score,
                                        improvement_threshold)
             THEN /\ reb_pc' = "complete"
                  /\ reb_received' =
                        NotifyObservers(reb_observers,
                            NotifyObservers(reb_observers, reb_received,
                                Event("REBASE", "plan_refinement")),
                            Event("REBASE", "refinement_stopped"))
                  /\ UNCHANGED << current_plan, current_score, iteration >>
             ELSE /\ current_plan' = refined_plan
                  /\ current_score' = refined_score
                  /\ iteration' = iteration + 1
                  /\ reb_received' =
                        NotifyObservers(reb_observers, reb_received,
                            Event("REBASE", "plan_refinement"))
                  /\ UNCHANGED reb_pc
    /\ UNCHANGED << max_iterations, improvement_threshold >>
    /\ UNCHANGED << reb_problem, reb_observers, reb_raised, reb_called >>
    /\ reb_llm_verify_calls' = LlmVerifyPlanCalls(reb_llm_verify_calls)
    /\ UNCHANGED reb_verifier_calls
    /\ UNCHANGED notRebVars

\* range(self.max_iterations) is exhausted.
RebLoopEnd ==
    /\ reb_pc = "refine"
    /\ iteration >= max_iterations
    /\ reb_pc' = "complete"
    /\ UNCHANGED << max_iterations, improvement_threshold, current_plan,
                    current_score, iterations, iteration >>
    /\ UNCHANGED rebObsVars
    /\ UNCHANGED rebCallVars
    /\ UNCHANGED notRebVars

\* run from the metadata on: the completion is notified and current_plan,
\* current_score are returned.
RebReturn ==
    /\ reb_pc = "complete"
    /\ reb_pc' = "done"
    /\ reb_received' = NotifyObservers(reb_observers, reb_received,
                                       Event("REBASE", "algorithm_complete"))
    /\ UNCHANGED << max_iterations, improvement_threshold, current_plan,
                    current_score, iterations, iteration >>
    /\ UNCHANGED << reb_problem, reb_observers, reb_raised, reb_called >>
    /\ UNCHANGED rebCallVars
    /\ UNCHANGED notRebVars

\* run, the constraint agent raises: nothing catches the exception.
RebStartRaises ==
    /\ reb_pc = "start"
    /\ \E e \in ExceptionTypes : reb_raised' = e
    /\ reb_called' = TRUE
    /\ reb_pc' = "raised"
    /\ UNCHANGED << max_iterations, improvement_threshold, current_plan,
                    current_score, iterations, iteration >>
    /\ UNCHANGED << reb_problem, reb_observers, reb_received >>
    /\ UNCHANGED rebCallVars
    /\ UNCHANGED notRebVars

\* The model raises in a turn of run.  Nothing catches what it raises in
\* _generate_initial_plan or _refine_plan; _verify_plan raises ValueError for
\* every exception, and nothing catches that.
RebModelRaises ==
    /\ \/ reb_pc = "initial"
       \/ reb_pc = "refine" /\ iteration < max_iterations
    /\ \E e \in ExceptionTypes, in_verify_plan \in BOOLEAN :
          /\ reb_raised' = IF in_verify_plan THEN "ValueError" ELSE e
          /\ reb_llm_verify_calls' =
                IF in_verify_plan
                THEN LlmVerifyPlanCalls(reb_llm_verify_calls)
                ELSE reb_llm_verify_calls
    /\ UNCHANGED reb_verifier_calls
    /\ reb_pc' = "raised"
    /\ UNCHANGED << max_iterations, improvement_threshold, current_plan,
                    current_score, iterations, iteration >>
    /\ UNCHANGED << reb_problem, reb_observers, reb_received, reb_called >>
    /\ UNCHANGED notRebVars

RebNext ==
    \/ RebStart
    \/ RebInitialPlan
    \/ RebRefine
    \/ RebLoopEnd
    \/ RebReturn
    \/ RebStartRaises
    \/ RebModelRaises

(***************************************************************************)
(* TreeOfThought (beam search)                                             *)
(*                                                                         *)
(* The code never looks into a step text, so the text the model returns    *)
(* for the i-th next step of a node is written i: a node's steps, and a    *)
(* plan, are the list of these numbers.                                    *)
(***************************************************************************)
\* Values of branching_factor and beam_width.
BranchingFactors == 0 .. 2

\* The default of branching_factor; a tree of this width is followed to the
\* depths of WideTreeDepths.
DefaultBranchingFactor == 3

WideTreeDepths == 0 .. 1

BeamWidths == 0 .. 2

\* max_depth is at most this.
MaxDepth == 3

\* Scores _evaluate_step returns: the number after "Score:", or -100
\* without one.
StepScores == { -100, 60 }

\* Scores the plan verifier returns for a complete plan.
VerifierScores == { 10, 80 }

\* best_plan = None
NoPlan == << 0 >>

\* best_score = float('-inf'): below every score.
NegInf == -1000

\* A root node of score 1.
RootScoredOne ==
    [steps |-> << >>, score |-> 1, depth |-> 0, complete |-> FALSE]

root == [steps |-> << >>, score |-> 0, depth |-> 0, complete |-> FALSE]

\* The state of a TreeOfThought whose run has not been called.
TotIdle ==
    /\ tot_pc = "start"
    /\ beam = << >>
    /\ next_beam = << >>
    /\ depth = 0
    /\ node_idx = 0
    /\ tot_best_plan = NoPlan
    /\ tot_best_score = NegInf
    /\ all_paths = << >>
    /\ levels = 0
    /\ generate_calls = 0
    /\ evaluate_calls = 0
    /\ verify_calls = 0
    /\ tot_received = NothingReceived
    /\ tot_raised = "None"
    /\ tot_called = FALSE

\* TreeOfThought.__init__ with its defaults.
TotConfigDefault ==
    /\ branching_factor = 3
    /\ max_depth = 5
    /\ beam_width = 2
    /\ tot_problem = << "p" >>
    /\ tot_observers = NoObservers

TotInit ==
    /\ branching_factor \in BranchingFactors \cup { DefaultBranchingFactor }
    /\ max_depth \in 0 .. MaxDepth
    /\ branching_factor \notin BranchingFactors => max_depth \in WideTreeDepths
    /\ beam_width \in BeamWidths
    /\ tot_problem \in Problems
    /\ tot_observers = << "o1", "o2" >>
    /\ TotIdle

\* A sort that is not stable: x goes before the nodes of its own score.
RECURSIVE InsertDescUnstable(_, _)
InsertDescUnstable(x, sorted) ==
    IF sorted = << >> THEN << x >>
    ELSE IF Head(sorted).score <= x.score THEN << x >> \o sorted
    ELSE << Head(sorted) >> \o InsertDescUnstable(x, Tail(sorted))

\* x goes before the first node of a lower score: list.sort(key=score,
\* reverse=True) is stable.
RECURSIVE InsertDesc(_, _)
InsertDesc(x, sorted) ==
    IF sorted = << >> THEN << x >>
    ELSE IF Head(sorted).score < x.score THEN << x >> \o sorted
    ELSE << Head(sorted) >> \o InsertDesc(x, Tail(sorted))

RECURSIVE SortDescFrom(_, _)
SortDescFrom(nodes, i) ==
    IF i = 0 THEN << >>
    ELSE InsertDesc(nodes[i], SortDescFrom(nodes, i - 1))

\* nodes.sort(key=lambda x: x["score"], reverse=True)
SortDesc(nodes) == SortDescFrom(nodes, Len(nodes))

\* nodes, not cut to n nodes.
TakeAll(nodes, n) == nodes

\* nodes[:n]
Take(nodes, n) == SubSeq(nodes, 1, Min2(n, Len(nodes)))

\* No node counts as a complete solution.
CompleteSolutionsNone(nodes) == << >>

\* [node for node in nodes if node["complete"]]
RECURSIVE CompleteSolutions(_)
CompleteSolutions(nodes) ==
    IF nodes = << >> THEN << >>
    ELSE (IF Head(nodes).complete THEN << Head(nodes) >> ELSE << >>)
         \o CompleteSolutions(Tail(nodes))

\* A choice of the last of several nodes of the highest score.
BestNodeLast(nodes) ==
    nodes[CHOOSE i \in 1 .. Len(nodes) :
        /\ \A j \in 1 .. Len(nodes) : nodes[j].score <= nodes[i].score
        /\ \A j \in (i + 1) .. Len(nodes) : nodes[j].score < nodes[i].score]

\* max(beam, key=lambda x: x["score"]): the first node of the highest score.
BestNode(nodes) ==
    nodes[CHOOSE i \in 1 .. Len(nodes) :
        /\ \A j \in 1 .. Len(nodes) : nodes[j].score <= nodes[i].score
        /\ \A j \in 1 .. (i - 1) : nodes[j].score < nodes[i].score]

\* run up to the depth loop: the constraints are extracted, the beam is the
\* root.
TotStart ==
    /\ tot_pc = "start"
    /\ beam' = << root >>
    /\ depth' = 0
    /\ tot_pc' = "loop"
    /\ UNCHANGED << branching_factor, max_depth, beam_width, next_beam,
                    node_idx, tot_best_plan, tot_best_score, all_paths,
                    levels, generate_calls, evaluate_calls, verify_calls >>
    /\ tot_called' = TRUE
    /\ UNCHANGED << tot_problem, tot_observers, tot_received, tot_raised >>
    /\ UNCHANGED notTotVars

\* for depth in range(self.max_depth): a turn begins.
TotLevelBegin ==
    /\ tot_pc = "loop"
    /\ depth < max_depth
    /\ next_beam' = << >>
    /\ node_idx' = 1
    /\ levels' = levels + 1
    /\ tot_pc' = "nodes"
    /\ UNCHANGED << branching_factor, max_depth, beam_width, beam, depth,
                    tot_best_plan, tot_best_score, all_paths,
                    generate_calls, evaluate_calls, verify_calls >>
    /\ UNCHANGED totObsVars
    /\ UNCHANGED notTotVars

\* range(self.max_depth) is exhausted.
TotLoopExhausted ==
    /\ tot_pc = "loop"
    /\ depth >= max_depth
    /\ tot_pc' = "return"
    /\ UNCHANGED << branching_factor, max_depth, beam_width, beam, next_beam,
                    depth, node_idx, tot_best_plan, tot_best_score,
                    all_paths, levels, generate_calls, evaluate_calls,
                    verify_calls >>
    /\ UNCHANGED totObsVars
    /\ UNCHANGED notTotVars

\* A beam node with steps that the completion check judges complete: it is
\* marked, verified and kept in next_beam.
TotNodeComplete ==
    /\ tot_pc = "nodes"
    /\ node_idx <= Len(beam)
    /\ beam[node_idx].steps # << >>
    /\ \E score \in VerifierScores :
          /\ IF score > tot_best_score
             THEN /\ tot_best_plan' = beam[node_idx].steps
                  /\ tot_best_score' = score
             ELSE UNCHANGED << tot_best_plan, tot_best_score >>
          /\ all_paths' = Append(all_paths,
                [steps |-> beam[node_idx].steps, score |-> score,
                 depth |-> depth, complete |-> TRUE])
    /\ beam' = [beam EXCEPT ![node_idx].complete = TRUE]
    /\ next_beam' = Append(next_beam, beam'[node_idx])
    /\ verify_calls' = verify_calls + 1
    /\ node_idx' = node_idx + 1
    /\ UNCHANGED << branching_factor, max_depth, beam_width, tot_pc, depth,
                    levels, generate_calls, evaluate_calls >>
    /\ UNCHANGED totObsVars
    /\ UNCHANGED notTotVars

\* An expansion that loses the last of the next steps.
ChildrenButLast(node, d, scores) ==
    [i \in 1 .. (Len(scores) - 1) |->
        [steps |-> Append(node.steps, i), score |-> scores[i],
         depth |-> d + 1, complete |-> FALSE]]

\* The children of a node, one for each of the branching_factor next steps,
\* with the step scores given.
Children(node, d, scores) ==
    [i \in 1 .. Len(scores) |->
        [steps |-> Append(node.steps, i), score |-> scores[i],
         depth |-> d + 1, complete |-> FALSE]]

\* A beam node that is not complete (the root, or the completion check says
\* no): branching_factor next steps are generated and each new plan is
\* scored by _evaluate_step.
TotNodeExpand ==
    /\ tot_pc = "nodes"
    /\ node_idx <= Len(beam)
    /\ \E scores \in [1 .. branching_factor -> StepScores] :
          /\ next_beam' = next_beam \o Children(beam[node_idx], depth, scores)
          /\ all_paths' = all_paths \o Children(beam[node_idx], depth, scores)
    /\ generate_calls' = generate_calls + branching_factor
    /\ evaluate_calls' = evaluate_calls + branching_factor
    /\ node_idx' = node_idx + 1
    /\ UNCHANGED << branching_factor, max_depth, beam_width, tot_pc, beam,
                    depth, tot_best_plan, tot_best_score, levels,
                    verify_calls >>
    /\ UNCHANGED totObsVars
    /\ UNCHANGED notTotVars

\* The end of a turn of the depth loop: with complete solutions in
\* next_beam the first of the highest node score is taken and the loop is
\* left; otherwise next_beam is sorted in place, the beam is its beam_width
\* first nodes, and the loop is left if no node of it is incomplete.
TotLevelEnd ==
    /\ tot_pc = "nodes"
    /\ node_idx > Len(beam)
    /\ IF CompleteSolutions(next_beam) # << >>
       THEN /\ tot_best_plan' =
                  SortDesc(CompleteSolutions(next_beam))[1].steps
            /\ tot_best_score' =
                  SortDesc(CompleteSolutions(next_beam))[1].score
            /\ tot_pc' = "return"
            /\ UNCHANGED << beam, next_beam, depth >>
       ELSE /\ next_beam' = SortDesc(next_beam)
            /\ beam' = Take(next_beam', beam_width)
            /\ IF \A i \in 1 .. Len(beam') : beam'[i].complete
               THEN /\ tot_pc' = "return"
                    /\ UNCHANGED depth
               ELSE /\ tot_pc' = "loop"
                    /\ depth' = depth + 1
            /\ UNCHANGED << tot_best_plan, tot_best_score >>
    /\ UNCHANGED << branching_factor, max_depth, beam_width, node_idx,
                    all_paths, levels, generate_calls, evaluate_calls,
                    verify_calls >>
    /\ UNCHANGED totObsVars
    /\ UNCHANGED notTotVars

\* run after the loop: without a best plan the best node of the beam is
\* taken; run returns best_plan, best_score.
TotReturn ==
    /\ tot_pc = "return"
    /\ IF tot_best_plan = NoPlan /\ beam # << >>
       THEN /\ tot_best_plan' = BestNode(beam).steps
            /\ tot_best_score' = BestNode(beam).score
       ELSE UNCHANGED << tot_best_plan, tot_best_score >>
    /\ tot_pc' = "done"
    /\ UNCHANGED << branching_factor, max_depth, beam_width, beam, next_beam,
                    depth, node_idx, all_paths, levels, generate_calls,
                    evaluate_calls, verify_calls >>
    /\ UNCHANGED totObsVars
    /\ UNCHANGED notTotVars

\* run, the constraint agent raises: nothing catches the exception.
TotStartRaises ==
    /\ tot_pc = "start"
    /\ \E e \in ExceptionTypes : tot_raised' = e
    /\ tot_called' = TRUE
    /\ tot_pc' = "raised"
    /\ UNCHANGED << branching_factor, max_depth, beam_width, beam, next_beam,
                    depth, node_idx, tot_best_plan, tot_best_score,
                    all_paths, levels, generate_calls, evaluate_calls,
                    verify_calls >>
    /\ UNCHANGED << tot_problem, tot_observers, tot_received >>
    /\ UNCHANGED notTotVars

\* A call made for a node of the beam raises, and nothing catches the
\* exception; what run has done for the node before the call stays done.
\* The completion check of a node with steps raises.  Or the check says
\* complete, the node is marked, and _verify_plan raises.  Or the k-th next
\* step raises in _generate_next_steps, after k - 1 that returned.  Or all
\* next steps are generated and the j-th step reward raises, after j - 1
\* children were scored and appended to next_beam and all_paths.  The root
\* is not checked by the model and without branches no step is asked for.
TotNodeRaises ==
    /\ tot_pc = "nodes"
    /\ node_idx <= Len(beam)
    /\ \E e \in ExceptionTypes : tot_raised' = e
    /\ \/ /\ beam[node_idx].steps # << >>
          /\ UNCHANGED << beam, next_beam, all_paths, generate_calls,
                          evaluate_calls, verify_calls >>
       \/ /\ beam[node_idx].steps # << >>
          /\ beam' = [beam EXCEPT ![node_idx].complete = TRUE]
          /\ verify_calls' = verify_calls + 1
          /\ UNCHANGED << next_beam, all_paths, generate_calls,
                          evaluate_calls >>
       \/ /\ \E k \in 1 .. branching_factor :
                generate_calls' = generate_calls + k
          /\ UNCHANGED << beam, next_beam, all_paths, evaluate_calls,
                          verify_calls >>
       \/ /\ \E j \in 1 .. branching_factor :
                /\ \E scores \in [1 .. (j - 1) -> StepScores] :
                      /\ next_beam' =
                            next_beam
                               \o Children(beam[node_idx], depth, scores)
                      /\ all_paths' =
                            all_paths
                               \o Children(beam[node_idx], depth, scores)
                /\ evaluate_calls' = evaluate_calls + j
          /\ generate_calls' = generate_calls + branching_factor
          /\ UNCHANGED << beam, verify_calls >>
    /\ tot_pc' = "raised"
    /\ UNCHANGED << branching_factor, max_depth, beam_width, depth, node_idx,
                    tot_best_plan, tot_best_score, levels >>
    /\ UNCHANGED << tot_problem, tot_observers, tot_received, tot_called >>
    /\ UNCHANGED notTotVars

TotNext ==
    \/ TotStart
    \/ TotLevelBegin
    \/ TotLoopExhausted
    \/ TotNodeComplete
    \/ TotNodeExpand
    \/ TotLevelEnd
    \/ TotReturn
    \/ TotStartRaises
    \/ TotNodeRaises

(***************************************************************************)
(* MixtureOfAlgorithms                                                     *)
(*                                                                         *)
(* Of the model's answer to a selection prompt the code reads only which   *)
(* strategy names occur in it: an answer is the set of those names.  A     *)
(* child's run is one step that returns a plan and a score; run never      *)
(* looks into the plan, which is written as the number of the child run.   *)
(***************************************************************************)
\* max_algorithm_switches is at most this.
MaxAlgorithmSwitches == 2

\* self.algorithms, in the order of the dictionary.
algorithms == << "Best of N", "Tree of Thought", "REBASE" >>

\* The answers of the model to a selection prompt.
Responses == SUBSET { algorithms[i] : i \in DOMAIN algorithms }

\* The scores a child's run returns.
ChildScores == { 40, 70, 90 }

\* No strategy chosen, no plan, no score yet.
NoAlgorithm == "None"

\* The state of a MixtureOfAlgorithms whose run has not been called.
MoaIdle ==
    /\ moa_pc = "start"
    /\ current_algorithm_name = NoAlgorithm
    /\ moa_current_plan = 0
    /\ moa_current_score = NegInf
    /\ algorithm_history = << >>
    /\ moa_iterations = << >>
    /\ moa_iteration = 0
    /\ responses = << >>
    /\ switch_skipped = FALSE
    /\ moa_received = NothingReceived
    /\ moa_raised = "None"
    /\ moa_called = FALSE
    /\ moa_run = 1
    /\ child_published = << >>

\* MixtureOfAlgorithms.__init__ with its default: the children are new,
\* have no observer and have the defaults of their own __init__.
MoaConfigDefault ==
    /\ max_algorithm_switches = 2
    /\ child_n_plans = 3
    /\ child_max_iterations = 5
    /\ moa_problem = << "p" >>
    /\ moa_observers = NoObservers
    /\ child_observers = [c \in Arms |-> NoObservers]

\* The calls of run on one instance that are followed.
Runs == 1 .. 2

\* The values of n_plans and of max_iterations the children are constructed
\* with: **kwargs of __init__ goes to each child, and their defaults are 3
\* and 5.
ChildPlanCounts == 2 .. 3

ChildMaxIterations == { 1, 5 }

MoaInit ==
    /\ max_algorithm_switches \in 0 .. MaxAlgorithmSwitches
    /\ child_n_plans \in ChildPlanCounts
    /\ child_max_iterations \in ChildMaxIterations
    /\ moa_problem \in Problems
    /\ moa_observers = << "o1", "o2" >>
    /\ child_observers = [c \in Arms |-> NoObservers]
    /\ MoaIdle

\* _select_algorithm: the first name of self.algorithms that occurs in the
\* answer, "Best of N" without one.
SelectInitialAlgorithm(response) ==
    IF \E i \in DOMAIN algorithms : algorithms[i] \in response
    THEN algorithms[CHOOSE i \in DOMAIN algorithms :
            /\ algorithms[i] \in response
            /\ \A j \in 1 .. (i - 1) : algorithms[j] \notin response]
    ELSE "Best of N"

\* _select_next_algorithm: the first name of self.algorithms, other than the
\* current one, that occurs in the answer; the current one without one.
SelectNextAlgorithm(response, current_algorithm) ==
    IF \E i \in DOMAIN algorithms :
          algorithms[i] \in response /\ algorithms[i] # current_algorithm
    THEN algorithms[CHOOSE i \in DOMAIN algorithms :
            /\ algorithms[i] \in response
            /\ algorithms[i] # current_algorithm
            /\ \A j \in 1 .. (i - 1) :
                  ~(algorithms[j] \in response
                    /\ algorithms[j] # current_algorithm)]
    ELSE current_algorithm

\* The switch loop is never left early.
SameAlgorithmSelectedNever(next_algorithm_name, current) == FALSE

\* if next_algorithm_name == current_algorithm_name
SameAlgorithmSelected(next_algorithm_name, current) ==
    next_algorithm_name = current

\* A result as good as the current one replaces it.
NextIsBetterOrEqual(next_score, score) == next_score >= score

\* if next_score > current_score
NextIsBetter(next_score, score) == next_score > score

\* The class name of a child, its algorithm_type.
ChildType(name) ==
    CASE name = "Best of N" -> "BestOfN"
      [] name = "Tree of Thought" -> "TreeOfThought"
      [] name = "REBASE" -> "REBASE"

\* plan_generation_start and plan_generation_complete of the plans
\* 0 .. n - 1 of _sequential_generate, one plan after the other.
RECURSIVE BestOfNPlanEvents(_)
BestOfNPlanEvents(n) ==
    IF n <= 0 THEN << >>
    ELSE BestOfNPlanEvents(n - 1)
            \o << PlanEvent("plan_generation_start", n - 1, 0),
                  PlanEvent("plan_generation_complete", n - 1, 0) >>

\* The events a run of the BestOfN child publishes: its n_plans plans, one
\* after the other.
BestOfNRunEvents ==
    << Event("BestOfN", "algorithm_start") >>
        \o BestOfNPlanEvents(child_n_plans)
        \o << Event("BestOfN", "best_plan_selected"),
              Event("BestOfN", "algorithm_complete") >>

\* The events of a run of the REBASE child that makes the given number of
\* refinements: one plan_refinement for each, refinement_stopped if the last
\* of them is insufficient and the loop is left early.
REBASERunEvents(refinements, stopped) ==
    << Event("REBASE", "algorithm_start"),
       Event("REBASE", "initial_plan") >>
        \o [i \in 1 .. refinements |-> Event("REBASE", "plan_refinement")]
        \o (IF stopped THEN << Event("REBASE", "refinement_stopped") >>
            ELSE << >>)
        \o << Event("REBASE", "algorithm_complete") >>

\* The sequences of events a run of a child that returns publishes.  REBASE
\* leaves its loop at the first insufficient refinement, or after
\* max_iterations refinements that all improve; TreeOfThought.run publishes
\* none.
ChildRunEvents(name) ==
    CASE name = "Best of N" -> { BestOfNRunEvents }
      [] name = "Tree of Thought" -> { << >> }
      [] name = "REBASE" ->
            { REBASERunEvents(k, TRUE) : k \in 1 .. child_max_iterations }
                \cup { REBASERunEvents(child_max_iterations, FALSE) }

\* The events a run of a child has published when it raises: BestOfN raises
\* in the constraint agent, before any event, or in the generation or the
\* verification of a plan, after the plan's start event; REBASE raises in the
\* constraint agent, in the initial plan, or in a refinement that the ones
\* before it, which all improved, have led to; TreeOfThought.run publishes
\* none.
ChildRaisedEvents(name) ==
    CASE name = "Best of N" ->
            { SubSeq(BestOfNRunEvents, 1, 2 * i) : i \in 0 .. child_n_plans }
      [] name = "Tree of Thought" -> { << >> }
      [] name = "REBASE" ->
            { SubSeq(REBASERunEvents(child_max_iterations, FALSE), 1, k) :
                 k \in 0 .. (1 + child_max_iterations) }

\* What the run of a child raises when a collaborator raises e.  BestOfN.run
\* has its except clause; REBASE._verify_plan raises ValueError for every
\* exception of the model call in it, and the constraint agent,
\* _generate_initial_plan and _refine_plan let e through; TreeOfThought
\* catches nothing.
ChildRaises(name, e, in_verify_plan) ==
    CASE name = "Best of N" -> RunRaises(e)
      [] name = "Tree of Thought" -> e
      [] name = "REBASE" -> IF in_verify_plan THEN "ValueError" ELSE e

\* The BestOfN child rejects the problem statement.
ChildRejects(name, problem) ==
    name = "Best of N" /\ Strip(problem) = << >>

\* update: an event that has an algorithm_type is given to the observers of
\* this instance inside a delegated_update event.
DelegatedUpdate(plan_data) ==
    [algorithm_type |-> "MixtureOfAlgorithms", event |-> "delegated_update",
     delegated_algorithm |-> plan_data.algorithm_type,
     algorithm_data |-> plan_data]

\* A child's notify_observers for each event of its run, in turn: update of
\* this instance is called once for each place it has in the child's list.
RECURSIVE ChildNotifyFrom(_, _, _, _)
ChildNotifyFrom(observers, i, received, plan_data) ==
    IF i > Len(observers) THEN received
    ELSE ChildNotifyFrom(observers, i + 1,
            IF observers[i] = "moa"
            THEN NotifyObservers(moa_observers, received,
                                 DelegatedUpdate(plan_data))
            ELSE received,
            plan_data)

RECURSIVE ChildPublishes(_, _, _, _)
ChildPublishes(observers, events, i, received) ==
    IF i > Len(events) THEN received
    ELSE ChildPublishes(observers, events, i + 1,
            ChildNotifyFrom(observers, 1, received, events[i]))

\* for algo in self.algorithms.values(): algo.add_observer(self)
RegisterWithChildren(observers_of) ==
    [c \in Arms |-> AddObserver(observers_of[c], "moa")]

\* run up to the first child run: the constraints are extracted, the start
\* is notified, the initial strategy is selected from the model's answer and
\* notified, and this instance is added to every child's observers.
MoaSelectInitial ==
    /\ moa_pc = "start"
    /\ \E response \in Responses :
          /\ current_algorithm_name' = SelectInitialAlgorithm(response)
          /\ responses' = Append(responses, response)
    /\ algorithm_history' = << current_algorithm_name' >>
    /\ child_observers' = RegisterWithChildren(child_observers)
    /\ moa_called' = TRUE
    /\ moa_received' =
          NotifyObservers(moa_observers,
              NotifyObservers(moa_observers, moa_received,
                  Event("MixtureOfAlgorithms", "algorithm_start")),
              Event("MixtureOfAlgorithms", "algorithm_selection"))
    /\ moa_pc' = "run_initial"
    /\ UNCHANGED << max_algorithm_switches, moa_current_plan,
                    moa_current_score, moa_iterations, moa_iteration,
                    switch_skipped >>
    /\ UNCHANGED << moa_problem, moa_observers, moa_raised, child_published >>
    /\ UNCHANGED moa_run
    /\ UNCHANGED moaChildVars
    /\ UNCHANGED notMoaVars

\* run, the constraint agent raises, or the model raises in
\* _select_algorithm after the start was notified: nothing catches the
\* exception.
MoaStartRaises ==
    /\ moa_pc = "start"
    /\ \E e \in ExceptionTypes, in_select \in BOOLEAN :
          /\ moa_raised' = e
          /\ moa_received' =
                IF in_select
                THEN NotifyObservers(moa_observers, moa_received,
                        Event("MixtureOfAlgorithms", "algorithm_start"))
                ELSE moa_received
    /\ moa_called' = TRUE
    /\ moa_pc' = "raised"
    /\ UNCHANGED << max_algorithm_switches, current_algorithm_name,
                    moa_current_plan, moa_current_score, algorithm_history,
                    moa_iterations, moa_iteration, responses,
                    switch_skipped >>
    /\ UNCHANGED << moa_problem, moa_observers, child_observers,
                    child_published >>
    /\ UNCHANGED moa_run
    /\ UNCHANGED moaChildVars
    /\ UNCHANGED notMoaVars

\* The run of the initial strategy: its events are delegated, its result is
\* the current one and the first entry of iterations, and the end of the
\* iteration is notified.
MoaRunInitial ==
    /\ moa_pc = "run_initial"
    /\ ~ChildRejects(current_algorithm_name, moa_problem)
    /\ \E score \in ChildScores :
          /\ moa_current_plan' = Len(moa_iterations) + 1
          /\ moa_current_score' = score
          /\ moa_iterations' = << [algorithm |-> current_algorithm_name,
                                   plan |-> Len(moa_iterations) + 1,
                                   score |-> score] >>
    /\ \E events \in ChildRunEvents(current_algorithm_name) :
          /\ child_published' = child_published \o events
          /\ moa_received' =
                NotifyObservers(moa_observers,
                    ChildPublishes(child_observers[current_algorithm_name],
                                   events, 1, moa_received),
                    Event("MixtureOfAlgorithms",
                          "algorithm_iteration_complete"))
    /\ moa_iteration' = 0
    /\ moa_pc' = "loop"
    /\ UNCHANGED << max_algorithm_switches, current_algorithm_name,
                    algorithm_history, responses, switch_skipped >>
    /\ UNCHANGED << moa_problem, moa_observers, moa_raised, moa_called,
                    child_observers >>
    /\ UNCHANGED moa_run
    /\ UNCHANGED moaChildVars
    /\ UNCHANGED notMoaVars

\* The run of the initial strategy raises: BestOfN rejects the problem
\* statement, or a collaborator raises in the child, whose events up to
\* there are delegated.  Nothing catches the exception.
MoaRunInitialRaises ==
    /\ moa_pc = "run_initial"
    /\ IF ChildRejects(current_algorithm_name, moa_problem)
       THEN /\ moa_raised' = "ValueError"
            /\ UNCHANGED << moa_received, child_published >>
       ELSE \E e \in ExceptionTypes, in_verify_plan \in BOOLEAN,
                  events \in ChildRaisedEvents(current_algorithm_name) :
                  /\ in_verify_plan => events # << >>
                  /\ moa_raised' =
                        ChildRaises(current_algorithm_name, e, in_verify_plan)
                  /\ child_published' = child_published \o events
                  /\ moa_received' =
                        ChildPublishes(
                           child_observers[current_algorithm_name],
                           events, 1, moa_received)
    /\ moa_pc' = "raised"
    /\ UNCHANGED << max_algorithm_switches, current_algorithm_name,
                    moa_current_plan, moa_current_score, algorithm_history,
                    moa_iterations, moa_iteration, responses,
                    switch_skipped >>
    /\ UNCHANGED << moa_problem, moa_observers, moa_called, child_observers >>
    /\ UNCHANGED moa_run
    /\ UNCHANGED moaChildVars
    /\ UNCHANGED notMoaVars

\* A turn of the switch loop in which the strategy selected is the current
\* one: the skipped switch is notified and the loop is left.
MoaSwitchSkipped ==
    /\ moa_pc = "loop"
    /\ moa_iteration < max_algorithm_switches
    /\ \E response \in Responses :
          /\ SameAlgorithmSelected(
                SelectNextAlgorithm(response, current_algorithm_name),
                current_algorithm_name)
          /\ responses' = Append(responses, response)
    /\ switch_skipped' = TRUE
    /\ moa_received' =
          NotifyObservers(moa_observers, moa_received,
              Event("MixtureOfAlgorithms", "algorithm_switch_skipped"))
    /\ moa_pc' = "return"
    /\ UNCHANGED << max_algorithm_switches, current_algorithm_name,
                    moa_current_plan, moa_current_score, algorithm_history,
                    moa_iterations, moa_iteration >>
    /\ UNCHANGED << moa_problem, moa_observers, moa_raised, moa_called,
                    child_observers, child_published >>
    /\ UNCHANGED moa_run
    /\ UNCHANGED moaChildVars
    /\ UNCHANGED notMoaVars

\* A turn of the switch loop in which another strategy is selected: it
\* becomes the current strategy, the selection is notified, the strategy is
\* run and its events are delegated, the end of the iteration is notified,
\* its result is appended to iterations and replaces the current result if
\* its score is higher, which is notified.
MoaSwitchAndRun ==
    /\ moa_pc = "loop"
    /\ moa_iteration < max_algorithm_switches
    /\ \E response \in Responses :
          /\ ~SameAlgorithmSelected(
                SelectNextAlgorithm(response, current_algorithm_name),
                current_algorithm_name)
          /\ current_algorithm_name' =
                SelectNextAlgorithm(response, current_algorithm_name)
          /\ responses' = Append(responses, response)
    /\ ~ChildRejects(current_algorithm_name', moa_problem)
    /\ algorithm_history' = Append(algorithm_history, current_algorithm_name')
    /\ \E next_score \in ChildScores,
          events \in ChildRunEvents(current_algorithm_name') :
          /\ moa_iterations' = Append(moa_iterations,
                [algorithm |-> current_algorithm_name',
                 plan |-> Len(moa_iterations) + 1,
                 score |-> next_score])
          /\ child_published' = child_published \o events
          /\ IF NextIsBetter(next_score, moa_current_score)
             THEN /\ moa_current_plan' = Len(moa_iterations) + 1
                  /\ moa_current_score' = next_score
             ELSE UNCHANGED << moa_current_plan, moa_current_score >>
          /\ moa_received' =
                LET selected ==
                        NotifyObservers(moa_observers, moa_received,
                            Event("MixtureOfAlgorithms",
                                  "algorithm_selection"))
                    run ==
                        ChildPublishes(
                            child_observers[current_algorithm_name'],
                            events, 1, selected)
                    complete ==
                        NotifyObservers(moa_observers, run,
                            Event("MixtureOfAlgorithms",
                                  "algorithm_iteration_complete"))
                IN  IF NextIsBetter(next_score, moa_current_score)
                    THEN NotifyObservers(moa_observers, complete,
                            Event("MixtureOfAlgorithms",
                                  "better_plan_found"))
                    ELSE complete
    /\ moa_iteration' = moa_iteration + 1
    /\ UNCHANGED << max_algorithm_switches, moa_pc, switch_skipped >>
    /\ UNCHANGED << moa_problem, moa_observers, moa_raised, moa_called,
                    child_observers >>
    /\ UNCHANGED moa_run
    /\ UNCHANGED moaChildVars
    /\ UNCHANGED notMoaVars

\* A turn of the switch loop that raises: the model raises in
\* _select_next_algorithm, or another strategy is selected and notified and
\* its run raises, the child's events up to there being delegated.  Nothing
\* catches the exception.
MoaSwitchRaises ==
    /\ moa_pc = "loop"
    /\ moa_iteration < max_algorithm_switches
    /\ \/ /\ \E e \in ExceptionTypes : moa_raised' = e
          /\ UNCHANGED << current_algorithm_name, algorithm_history,
                          responses, moa_received, child_published >>
       \/ \E response \in Responses :
             /\ ~SameAlgorithmSelected(
                   SelectNextAlgorithm(response, current_algorithm_name),
                   current_algorithm_name)
             /\ current_algorithm_name' =
                   SelectNextAlgorithm(response, current_algorithm_name)
             /\ responses' = Append(responses, response)
             /\ algorithm_history' =
                   Append(algorithm_history, current_algorithm_name')
             /\ IF ChildRejects(current_algorithm_name', moa_problem)
                THEN /\ moa_raised' = "ValueError"
                     /\ moa_received' =
                           NotifyObservers(moa_observers, moa_received,
                               Event("MixtureOfAlgorithms",
                                     "algorithm_selection"))
                     /\ UNCHANGED child_published
                ELSE \E e \in ExceptionTypes, in_verify_plan \in BOOLEAN,
                          events \in
                              ChildRaisedEvents(current_algorithm_name') :
                           /\ in_verify_plan => events # << >>
                           /\ moa_raised' =
                                 ChildRaises(current_algorithm_name', e,
                                             in_verify_plan)
                           /\ child_published' = child_published \o events
                           /\ moa_received' =
                                 ChildPublishes(
                                    child_observers[current_algorithm_name'],
                                    events, 1,
                                    NotifyObservers(moa_observers,
                                        moa_received,
                                        Event("MixtureOfAlgorithms",
                                              "algorithm_selection")))
    /\ moa_pc' = "raised"
    /\ UNCHANGED << max_algorithm_switches, moa_current_plan,
                    moa_current_score, moa_iterations, moa_iteration,
                    switch_skipped >>
    /\ UNCHANGED << moa_problem, moa_observers, moa_called, child_observers >>
    /\ UNCHANGED moa_run
    /\ UNCHANGED moaChildVars
    /\ UNCHANGED notMoaVars

\* range(self.max_algorithm_switches) is exhausted.
MoaLoopExhausted ==
    /\ moa_pc = "loop"
    /\ moa_iteration >= max_algorithm_switches
    /\ moa_pc' = "return"
    /\ UNCHANGED << max_algorithm_switches, current_algorithm_name,
                    moa_current_plan, moa_current_score, algorithm_history,
                    moa_iterations, moa_iteration, responses,
                    switch_skipped >>
    /\ UNCHANGED moaObsVars
    /\ UNCHANGED moa_run
    /\ UNCHANGED moaChildVars
    /\ UNCHANGED notMoaVars

\* run after the loop: the metadata is prepared, the completion is notified
\* and current_plan, current_score are returned.
MoaReturn ==
    /\ moa_pc = "return"
    /\ moa_pc' = "done"
    /\ moa_received' =
          NotifyObservers(moa_observers, moa_received,
              Event("MixtureOfAlgorithms", "algorithm_complete"))
    /\ UNCHANGED << max_algorithm_switches, current_algorithm_name,
                    moa_current_plan, moa_current_score, algorithm_history,
                    moa_iterations, moa_iteration, responses,
                    switch_skipped >>
    /\ UNCHANGED << moa_problem, moa_observers, moa_raised, moa_called,
                    child_observers, child_published >>
    /\ UNCHANGED moa_run
    /\ UNCHANGED moaChildVars
    /\ UNCHANGED notMoaVars

\* run is called again on an instance whose run has returned or raised: the
\* locals are new, the children keep their observers.  What the observers
\* have received is recorded from the call on.
MoaRunAgain ==
    /\ moa_pc \in { "done", "raised" }
    /\ moa_run + 1 \in Runs
    /\ moa_run' = moa_run + 1
    /\ moa_pc' = "start"
    /\ current_algorithm_name' = NoAlgorithm
    /\ moa_current_plan' = 0
    /\ moa_current_score' = NegInf
    /\ algorithm_history' = << >>
    /\ moa_iterations' = << >>
    /\ moa_iteration' = 0
    /\ responses' = << >>
    /\ switch_skipped' = FALSE
    /\ moa_received' = NothingReceived
    /\ moa_raised' = "None"
    /\ moa_called' = FALSE
    /\ child_published' = << >>
    /\ UNCHANGED << max_algorithm_switches, moa_problem, moa_observers,
                    child_observers >>
    /\ UNCHANGED moaChildVars
    /\ UNCHANGED notMoaVars

MoaNext ==
    \/ MoaSelectInitial
    \/ MoaStartRaises
    \/ MoaRunInitial
    \/ MoaRunInitialRaises
    \/ MoaSwitchSkipped
    \/ MoaSwitchAndRun
    \/ MoaSwitchRaises
    \/ MoaLoopExhausted
    \/ MoaReturn
    \/ MoaRunAgain

(***************************************************************************)
(* REBASE._verify_plan: the score read out of the verification text        *)
(*                                                                         *)
(* A verification text is a list of pieces; the text is their              *)
(* concatenation.  The pieces are the marker "Score:", the line break, the *)
(* blank, a letter, the minus sign, the point and three digits, so that    *)
(* the marker occurs in a text only where it is a piece.  A score is a     *)
(* rational number [p, q] in lowest terms.                                 *)
(***************************************************************************)
ScoreMark == "Score:"

LineBreak == "\n"

Digits == { "0", "1", "7" }

ResponsePieces == { ScoreMark, LineBreak, " ", "x", "-", "." } \cup Digits

ResponseLengths == 0 .. 5

VerificationTexts == UNION { [1 .. n -> ResponsePieces] : n \in ResponseLengths }

\* No score: the value of score before _verify_plan has returned.
NoScore == [p |-> 0, q |-> 0]

DigitValue(c) == CASE c = "0" -> 0 [] c = "1" -> 1 [] c = "7" -> 7

\* The number a list of digits writes.
RECURSIVE DigitsValue(_)
DigitsValue(ds) ==
    IF ds = << >>
    THEN 0
    ELSE 10 * DigitsValue(SubSeq(ds, 1, Len(ds) - 1)) + DigitValue(ds[Len(ds)])

RECURSIVE Pow10(_)
Pow10(n) == IF n = 0 THEN 1 ELSE 10 * Pow10(n - 1)

\* str.split(sep): the pieces between the occurrences of sep, empty ones
\* included.
RECURSIVE SplitOnFrom(_, _, _, _, _)
SplitOnFrom(s, sep, i, part, parts) ==
    IF i > Len(s)
    THEN Append(parts, part)
    ELSE IF s[i] = sep
         THEN SplitOnFrom(s, sep, i + 1, << >>, Append(parts, part))
         ELSE SplitOnFrom(s, sep, i + 1, Append(part, s[i]), parts)

SplitOn(s, sep) == SplitOnFrom(s, sep, 1, << >>, << >>)

\* line.strip().startswith("Score:")
StartsWithScoreMark(line) ==
    LET stripped == Strip(line)
    IN  stripped # << >> /\ stripped[1] = ScoreMark

\* float(score_text) of a stripped text of these pieces: an optional minus
\* sign, then digits with at most one point and at least one digit;
\* everything else raises ValueError (ok is FALSE).
FloatOf(score_text) ==
    LET neg    == score_text # << >> /\ score_text[1] = "-"
        body   == IF neg THEN Tail(score_text) ELSE score_text
        points == { i \in DOMAIN body : body[i] = "." }
        digits == { i \in DOMAIN body : body[i] \in Digits }
        valid  == /\ Cardinality(points) <= 1
                  /\ digits # {}
                  /\ points \cup digits = DOMAIN body
        frac   == IF points = {}
                  THEN 0
                  ELSE Len(body) - (CHOOSE i \in points : TRUE)
        mag    == DigitsValue(SelectSeq(body, LAMBDA c : c \in Digits))
    IN  IF valid
        THEN [ok |-> TRUE,
              value |-> QNorm(IF neg THEN 0 - mag ELSE mag, Pow10(frac))]
        ELSE [ok |-> FALSE, value |-> NoScore]

\* re.findall(r"\d+", response): the maximal runs of digits, in order.
RECURSIVE FindAllFrom(_, _, _, _)
FindAllFrom(s, i, run, runs) ==
    IF i > Len(s)
    THEN IF run = << >> THEN runs ELSE Append(runs, run)
    ELSE IF s[i] \in Digits
         THEN FindAllFrom(s, i + 1, Append(run, s[i]), runs)
         ELSE FindAllFrom(s, i + 1, << >>,
                          IF run = << >> THEN runs ELSE Append(runs, run))

FindAll(response) == FindAllFrom(response, 1, << >>, << >>)

\* A variant that uses the first number found.
FirstNumber(numbers) == numbers[1]

\* numbers[-1]: the last number found.
LastNumber(numbers) == numbers[Len(numbers)]

\* The default score if no number is found or the parsing fails.
DefaultScore == QFromInt(50)

\* max(0, min(100, score))
ClampScore(score) ==
    IF score.p >= 100 * score.q
    THEN QFromInt(100)
    ELSE IF score.p <= 0 THEN QFromInt(0) ELSE score

\* _verify_plan, the extraction of the score from the response: the first
\* line that starts with "Score:" gives the score if what follows the
\* marker is a number, and the default if it is not; without such a line
\* the last run of digits of the response gives it; without digits it is
\* the default.  The score is brought into 0 .. 100.
ExtractScore(response) ==
    LET score_line == SelectSeq(SplitOn(response, LineBreak),
                                StartsWithScoreMark)
        numbers    == FindAll(response)
    IN  IF score_line # << >>
        THEN LET score_text == Strip(SplitOn(score_line[1], ScoreMark)[2])
                 score      == FloatOf(score_text)
             IN  IF score.ok THEN ClampScore(score.value) ELSE DefaultScore
        ELSE IF numbers # << >>
             THEN ClampScore(QFromInt(DigitsValue(LastNumber(numbers))))
             ELSE ClampScore(DefaultScore)

VpConfigDefault == vp_response = << >>

VpIdle ==
    /\ vp_pc = "start"
    /\ vp_score = NoScore
    /\ vp_raised = "None"

\* The model's answer to the verification prompt.
VpInit ==
    /\ vp_response \in VerificationTexts
    /\ VpIdle

\* _verify_plan: the model answers and the score is read from its answer.
VerifyPlan ==
    /\ vp_pc = "start"
    /\ vp_score' = ExtractScore(vp_response)
    /\ vp_pc' = "returned"
    /\ UNCHANGED << vp_response, vp_raised >>
    /\ UNCHANGED notVpVars

\* _verify_plan, the template loader or the model raises: every exception
\* is raised again as ValueError.
VerifyPlanRaises ==
    /\ vp_pc = "start"
    /\ \E e \in ExceptionTypes : vp_raised' = "ValueError"
    /\ vp_pc' = "raised"
    /\ UNCHANGED << vp_response, vp_score >>
    /\ UNCHANGED notVpVars

VpNext ==
    \/ VerifyPlan
    \/ VerifyPlanRaises

(***************************************************************************)
(* PlanGEN.solve_stream (the workflow, streamed)                           *)
(*                                                                         *)
(* The generator is followed from one yield to the next: a step of the     *)
(* model is one call of next() or of throw() by the consumer, and          *)
(* stream_pc names the yield the generator is suspended at.  An optional   *)
(* value is a list: None is the empty list and a value v is the list of v  *)
(* alone.  A dictionary is the list of its (key, value) pairs in the order *)
(* of its display.                                                         *)
(***************************************************************************)
None == << >>

Some(v) == << v >>

\* The steps of the workflow, in the order solve_stream takes them.
StreamSteps == << "extract_constraints", "generate_solutions",
                 "verify_solutions", "select_solution" >>

\* The key of state under which the result of each step is kept.
ResultKeys == << "constraints", "solutions", "verification_results",
                "selected_solution" >>

\* What the step methods put before the message of the exception.
ErrorPrefixes == << "Error extracting constraints: ",
                   "Error generating solutions: ",
                   "Error verifying solutions: ",
                   "Error selecting solution: " >>

\* The messages of the exceptions an agent raises.
ExceptionMessages == { "Constraint error", "timeout" }

\* The messages of the exceptions (instances of Exception) a consumer
\* throws into the generator.
ThrownMessages == { "thrown" }

\* What the except clause of solve_stream puts before the message.
WorkflowErrorPrefix == "Error in workflow: "

\* The yields of solve_stream that are inside its try statement.
YieldsInTry == { "in_progress", "complete", "error" }

\* What the agents return: the constraints, the solutions, the verification
\* results, and the dictionary of the selection, which may hold a score.
AgentResults ==
    << { << >>, << "c1" >> },
       { << "Solution 1" >>, << "Solution 1", "Solution 2" >> },
       { << "Verification 1" >>, << "Verification 1", "Verification 2" >> },
       { << << "selected_solution", "Solution 1" >> >>,
         << << "selected_solution", "Solution 1" >>, << "score", 95 >> >> } >>

\* state as solve_stream initializes it for a problem.
InitialState(problem) ==
    [ key \in { ResultKeys[k] : k \in DOMAIN ResultKeys }
               \cup { "problem", "error" }
        |-> IF key = "problem" THEN Some(problem) ELSE None ]

\* dict.get(key) of a dictionary given as its list of pairs.
Get(dict, key) ==
    IF \E i \in DOMAIN dict : dict[i][1] = key
    THEN Some(dict[CHOOSE i \in DOMAIN dict : dict[i][1] = key][2])
    ELSE None

\* The data of an update that shows the results of the first k steps.
ResultsOf(st, k) == [i \in 1 .. k |-> << ResultKeys[i], st[ResultKeys[i]] >>]

\* The error update of step k carries no results at all.
ErrorDataNone(st, k) == None

\* The data of the error update of step k: None for the first step, and
\* the results of the steps before it for the others.
ErrorData(st, k) == IF k = 1 THEN None ELSE Some(ResultsOf(st, k - 1))

\* The data of the complete update of step k: the results up to it, and
\* for the last step the score of the selected solution too.
CompleteData(st, k) ==
    IF k < Len(StreamSteps)
    THEN Some(ResultsOf(st, k))
    ELSE LET selected == st["selected_solution"]
             score    == IF selected # None /\ selected[1] # << >>
                         THEN Get(selected[1], "score")
                         ELSE None
         IN  Some(Append(ResultsOf(st, k), << "score", score >>))

\* A generator that goes on with the next step after an error update.
GoesOnAfterError == "complete"

\* After an error update solve_stream returns.
ReturnsAfterError == "returned"

SsConfigDefault == stream_state = InitialState(<< "p" >>)

SsIdle ==
    /\ stream_pc = "start"
    /\ stream_step = 0
    /\ stream_updates = << >>

SsInit ==
    /\ \E problem \in Problems : stream_state = InitialState(problem)
    /\ SsIdle

\* solve_stream up to the in_progress update of the next step: the first
\* step after the call, every other step after the complete update of the
\* step before it.
StreamStepBegins ==
    /\ \/ stream_pc = "start"
       \/ stream_pc = "complete" /\ stream_step < Len(StreamSteps)
    /\ stream_step' = stream_step + 1
    /\ stream_updates' = Append(stream_updates,
           [step |-> StreamSteps[stream_step + 1], status |-> "in_progress",
            data |-> None, error |-> None])
    /\ stream_pc' = "in_progress"
    /\ UNCHANGED stream_state
    /\ UNCHANGED notSsVars

\* The agent of the step returns: the step method returns its result,
\* state is updated with it and the complete update is yielded.
StreamStepCompletes ==
    /\ stream_pc = "in_progress"
    /\ \E result \in AgentResults[stream_step] :
          LET st == [stream_state EXCEPT ![ResultKeys[stream_step]] =
                                             Some(result)]
          IN  /\ stream_state' = st
              /\ stream_updates' = Append(stream_updates,
                     [step |-> StreamSteps[stream_step],
                      status |-> "complete",
                      data |-> CompleteData(st, stream_step),
                      error |-> None])
    /\ stream_pc' = "complete"
    /\ UNCHANGED stream_step
    /\ UNCHANGED notSsVars

\* The agent of the step raises: the step method returns the error and
\* the error update is yielded; the generator is suspended at that yield.
StreamStepFails ==
    /\ stream_pc = "in_progress"
    /\ \E e \in ExceptionMessages :
          stream_updates' = Append(stream_updates,
              [step |-> StreamSteps[stream_step], status |-> "error",
               data |-> ErrorData(stream_state, stream_step),
               error |-> Some(<< ErrorPrefixes[stream_step], e >>)])
    /\ stream_pc' = "error"
    /\ UNCHANGED << stream_step, stream_state >>
    /\ UNCHANGED notSsVars

\* The generator is resumed at the yield of an error update: the return
\* statement that follows it ends the generator.
StreamReturnsAfterError ==
    /\ stream_pc = "error"
    /\ stream_pc' = ReturnsAfterError
    /\ UNCHANGED << stream_step, stream_state, stream_updates >>
    /\ UNCHANGED notSsVars

\* The consumer throws an exception into the generator.  At a yield inside
\* the try statement the except clause yields the update of step "error";
\* before the first next() and at the yield of the except clause itself
\* nothing catches the exception: it comes back to the consumer and the
\* generator is closed.
StreamThrown ==
    /\ stream_pc \in YieldsInTry \cup { "start", "workflow_error" }
    /\ \E e \in ThrownMessages :
          IF stream_pc \in YieldsInTry
          THEN /\ stream_updates' = Append(stream_updates,
                      [step |-> "error", status |-> "error", data |-> None,
                       error |-> Some(<< WorkflowErrorPrefix, e >>)])
               /\ stream_pc' = "workflow_error"
          ELSE /\ stream_pc' = "raised"
               /\ UNCHANGED stream_updates
    /\ UNCHANGED << stream_step, stream_state >>
    /\ UNCHANGED notSsVars

\* The generator is resumed after the complete update of the last step or
\* after the update of the except clause: it runs off its end.
StreamEnds ==
    /\ \/ stream_pc = "complete" /\ stream_step = Len(StreamSteps)
       \/ stream_pc = "workflow_error"
    /\ stream_pc' = "returned"
    /\ UNCHANGED << stream_step, stream_state, stream_updates >>
    /\ UNCHANGED notSsVars

SsNext ==
    \/ StreamStepBegins
    \/ StreamStepCompletes
    \/ StreamStepFails
    \/ StreamReturnsAfterError
    \/ StreamThrown
    \/ StreamEnds

(***************************************************************************)
(* MixtureOfAlgorithms.__init__ (the construction)                         *)
(***************************************************************************)
\* The collaborators BaseAlgorithm.__init__ takes.
Collaborators == { "llm_interface", "constraint_agent", "verification_agent" }

\* The keywords a caller gives that end up in **kwargs of
\* MixtureOfAlgorithms.__init__: the collaborators and configuration options.
KeywordNames ==
    Collaborators \cup { "model_name", "temperature", "max_iterations",
                         "n_plans" }

\* The keywords __init__ writes out in the call that constructs a child.
ExplicitKeywords == Collaborators \cup { "domain" }

\* BaseAlgorithm.__init__: a collaborator is the one given, or a default one
\* constructed here.
BaseCollaborators(kw) ==
    [c \in Collaborators |-> IF c \in kw THEN "injected" ELSE "default"]

McConfigDefault ==
    /\ moa_kwargs = {}
    /\ selection_agent = "None"

McIdle ==
    /\ moa_init_pc = "start"
    /\ moa_collaborators = [c \in Collaborators |-> "None"]
    /\ moa_children = << >>
    /\ moa_init_raised = "None"

\* A call MixtureOfAlgorithms(selection_agent=..., **kwargs).
McInit ==
    /\ moa_kwargs \in SUBSET KeywordNames
    /\ selection_agent \in { "None", "injected" }
    /\ McIdle

\* super().__init__(**kwargs)
MoaInitBase ==
    /\ moa_init_pc = "start"
    /\ moa_collaborators' = BaseCollaborators(moa_kwargs)
    /\ moa_init_pc' = "children"
    /\ UNCHANGED << moa_kwargs, selection_agent, moa_children,
                    moa_init_raised >>
    /\ UNCHANGED notMcVars

\* The next entry of self.algorithms is constructed: the call gives
\* llm_interface, constraint_agent, verification_agent and domain by
\* keyword and **kwargs besides, and no keyword is given twice.
MoaInitChild ==
    /\ moa_init_pc = "children"
    /\ Len(moa_children) < Len(algorithms)
    /\ ExplicitKeywords \cap moa_kwargs = {}
    /\ moa_children' = Append(moa_children,
           [name |-> algorithms[Len(moa_children) + 1],
            collaborators |-> moa_collaborators])
    /\ UNCHANGED << moa_kwargs, selection_agent, moa_collaborators,
                    moa_init_pc, moa_init_raised >>
    /\ UNCHANGED notMcVars

\* The call that constructs a child gives a keyword twice, once written out
\* and once in **kwargs: Python raises TypeError and __init__ is left.
MoaInitChildRaises ==
    /\ moa_init_pc = "children"
    /\ Len(moa_children) < Len(algorithms)
    /\ ExplicitKeywords \cap moa_kwargs # {}
    /\ moa_init_raised' = "TypeError"
    /\ moa_init_pc' = "raised"
    /\ UNCHANGED << moa_kwargs, selection_agent, moa_collaborators,
                    moa_children >>
    /\ UNCHANGED notMcVars

\* __init__ from self.selection_agent on.  With no selection agent given
\* the default one is constructed by SelectionAgent(llm_interface=...),
\* and SelectionAgent.__init__ takes model and prompt_manager and no
\* llm_interface: Python raises TypeError and __init__ is left before
\* self.selection_agent is assigned.
MoaInitFinish ==
    /\ moa_init_pc = "children"
    /\ Len(moa_children) = Len(algorithms)
    /\ IF selection_agent = "None"
       THEN /\ moa_init_raised' = "TypeError"
            /\ moa_init_pc' = "raised"
       ELSE /\ moa_init_pc' = "done"
            /\ UNCHANGED moa_init_raised
    /\ UNCHANGED << moa_kwargs, selection_agent, moa_collaborators,
                    moa_children >>
    /\ UNCHANGED notMcVars

McNext ==
    \/ MoaInitBase
    \/ MoaInitChild
    \/ MoaInitChildRaises
    \/ MoaInitFinish

(***************************************************************************)
(* BestOfN: the temperature of a generation (sampling strategy adaptive)   *)
(*                                                                         *)
(* The loop of _sequential_generate is followed with _adaptive_sampling as *)
(* the sampling function.  Of a result only the score is kept: the plan    *)
(* and the feedback go into the prompt and not into the temperature.       *)
(* Temperatures are floats, computed as Python and numpy compute them.     *)
(***************************************************************************)
\* MIN_VALID_ALTERNATIVES of best_of_n.py.
MIN_VALID_ALTERNATIVES == 2

\* The values of n_plans of the runs followed.
AdaptivePlanCounts == 1 .. 4

\* The scores the verification gives.
PlanScores == { 0, 45, 50, 100 }

\* The configured temperatures, in tenths: 0.0, the default 0.7, and 1.0.
TemperatureTenths == { 0, 7, 10 }

\* -x for a float x.
FNeg(x) == IF x.m = << >> THEN x ELSE [x EXCEPT !.neg = ~x.neg]

\* x - y on floats.
FSub(x, y) == FAdd(x, FNeg(y))

\* The float literal 0.1.
PointOne == FDivInt(1, 10)

\* sum(scores) for a list of scores.
RECURSIVE SumScores(_)
SumScores(scores) ==
    IF scores = << >> THEN 0 ELSE Head(scores) + SumScores(Tail(scores))

\* np.mean(scores) for a list of scores that is not empty.
NpMean(scores) == FDivInt(SumScores(scores), Len(scores))

\* prev_scores[-2:] and prev_scores[:-2].
LastTwo(prev_scores) ==
    SubSeq(prev_scores, Len(prev_scores) - 1, Len(prev_scores))

AllButLastTwo(prev_scores) == SubSeq(prev_scores, 1, Len(prev_scores) - 2)

\* score_trend with the two means exchanged.
ScoreTrendReversed(prev_scores) ==
    IF Len(prev_scores) > MIN_VALID_ALTERNATIVES
    THEN FSub(NpMean(AllButLastTwo(prev_scores)), NpMean(LastTwo(prev_scores)))
    ELSE FZero

\* score_trend: the mean of the last two scores less the mean of the scores
\* before them, and 0 if there are at most MIN_VALID_ALTERNATIVES scores.
ScoreTrend(prev_scores) ==
    IF Len(prev_scores) > MIN_VALID_ALTERNATIVES
    THEN FSub(NpMean(LastTwo(prev_scores)), NpMean(AllButLastTwo(prev_scores)))
    ELSE FZero

\* adapted_temp: self.temperature * (1 - score_trend * 0.1).
AdaptedTemp(temperature, prev_scores) ==
    FMul(temperature,
         FSub(FFromInt(1), FMul(ScoreTrend(prev_scores), PointOne)))

\* The temperature of _diverse_sampling:
\* self.temperature * (1 + len(previous_results) * 0.1).
DiverseTemp(temperature, previous_results) ==
    FMul(temperature,
         FAdd(FFromInt(1), FMul(FFromInt(Len(previous_results)), PointOne)))

\* What a call of the sampling function met: the template it rendered, and
\* for the diverse sampling without a template whether its plan was diverse
\* enough.
SamplingOutcomes ==
    { "adaptive_plan", "diverse_plan", "no_template", "no_template_repeat" }

\* The temperatures, in order, of the generations one call of
\* _adaptive_sampling asks for.  Without previous results it is the basic
\* sampling, at self.temperature (with or without its template).  If the
\* adaptive template is rendered, one generation at adapted_temp.  If not,
\* it is the diverse sampling, at its temperature, and if that has no
\* template either and its plan is not diverse enough, a basic sampling
\* after it.
SamplingTemperatures(temperature, previous_results, outcome) ==
    IF previous_results = << >> THEN << temperature >>
    ELSE IF outcome = "adaptive_plan"
    THEN << AdaptedTemp(temperature, previous_results) >>
    ELSE IF outcome = "no_template_repeat"
    THEN << DiverseTemp(temperature, previous_results), temperature >>
    ELSE << DiverseTemp(temperature, previous_results) >>

AsConfigDefault ==
    /\ as_temperature = FDivInt(7, 10)
    /\ as_n_plans = 3

AsIdle ==
    /\ as_pc = "idle"
    /\ as_results = << >>
    /\ as_outcome = "None"
    /\ as_temperatures = << >>

\* A BestOfN with sampling_strategy adaptive, as constructed, at the start
\* of the loop.
AsInit ==
    /\ as_temperature \in { FDivInt(t, 10) : t \in TemperatureTenths }
    /\ as_n_plans \in AdaptivePlanCounts
    /\ as_pc = "sample"
    /\ as_results = << >>
    /\ as_outcome = "None"
    /\ as_temperatures = << >>

\* plan = sample_fn(problem_statement, constraints, results): the call of
\* _adaptive_sampling of one turn of the loop, with the generations it asks
\* the model for.
AdaptiveSampling ==
    /\ as_pc = "sample"
    /\ Len(as_results) < as_n_plans
    /\ \E outcome \in SamplingOutcomes :
          /\ as_results = << >> => outcome = "adaptive_plan"
          /\ as_outcome' = IF as_results = << >> THEN "plan" ELSE outcome
          /\ as_temperatures' =
                SamplingTemperatures(as_temperature, as_results, outcome)
    /\ as_pc' = "verify"
    /\ UNCHANGED << as_temperature, as_n_plans, as_results >>
    /\ UNCHANGED notAsVars

\* feedback, score = self._verify_plan(...); results.append(...).
AsVerifyPlan ==
    /\ as_pc = "verify"
    /\ \E score \in PlanScores : as_results' = Append(as_results, score)
    /\ as_pc' = "sample"
    /\ UNCHANGED << as_temperature, as_n_plans, as_outcome, as_temperatures >>
    /\ UNCHANGED notAsVars

\* The loop has made n_plans results: return results.
AsReturn ==
    /\ as_pc = "sample"
    /\ Len(as_results) = as_n_plans
    /\ as_pc' = "return"
    /\ UNCHANGED << as_temperature, as_n_plans, as_results, as_outcome,
                    as_temperatures >>
    /\ UNCHANGED notAsVars

AsNext ==
    \/ AdaptiveSampling
    \/ AsVerifyPlan
    \/ AsReturn

(***************************************************************************)
(* Observable: the list of observers (plangen/visualization/observers.py)  *)
(*                                                                         *)
(* One Observable is followed through calls of add_observer,               *)
(* remove_observer and notify_observers.  Its observers record the events  *)
(* their update is given and return.                                       *)
(***************************************************************************)
\* The observers the calls are made with.
Subscribers == Observers \cup { "o3" }

\* The events notify_observers is called with.
ObservableEvents ==
    { Event("BestOfN", "algorithm_start"),
      Event("BestOfN", "algorithm_complete") }

\* The numbers of the calls followed.
ObservableCalls == 1 .. 6

\* The first place of the observer in the list, 0 if it has none.
RECURSIVE IndexFrom(_, _, _)
IndexFrom(observers, observer, i) ==
    IF i > Len(observers) THEN 0
    ELSE IF observers[i] = observer THEN i
    ELSE IndexFrom(observers, observer, i + 1)

\* A remove_observer that fills the place of the observer with the last
\* observer of the list.
RemoveObserverUnordered(observers, observer) ==
    LET i == IndexFrom(observers, observer, 1)
        n == Len(observers)
    IN  IF i = 0 THEN observers
        ELSE IF i = n THEN SubSeq(observers, 1, n - 1)
        ELSE SubSeq(observers, 1, i - 1) \o << observers[n] >>
                 \o SubSeq(observers, i + 1, n - 1)

\* Observable.remove_observer: list.remove takes the first place of the
\* observer out of the list and moves the later ones up.
RemoveObserver(observers, observer) ==
    LET i == IndexFrom(observers, observer, 1)
    IN  IF i = 0 THEN observers
        ELSE SubSeq(observers, 1, i - 1)
                 \o SubSeq(observers, i + 1, Len(observers))

\* The calls of update one notify_observers makes, in order: one for each
\* place of the list.
RECURSIVE UpdateCalls(_, _)
UpdateCalls(observers, plan_data) ==
    IF observers = << >> THEN << >>
    ELSE << [observer |-> Head(observers), plan_data |-> plan_data] >>
             \o UpdateCalls(Tail(observers), plan_data)

\* Observable.__init__, before any call.
ObservableInit ==
    /\ obs_observers = NoObservers
    /\ obs_received = [o \in Subscribers |-> << >>]
    /\ obs_updates = << >>
    /\ obs_call = [name |-> "__init__"]
    /\ obs_prev = [observers |-> NoObservers, updates |-> << >>]
    /\ obs_since = [o \in Subscribers |-> 0]
    /\ obs_clock = 0

\* add_observer(observer)
ObsAddObserver ==
    /\ obs_clock + 1 \in ObservableCalls
    /\ \E observer \in Subscribers :
          /\ obs_observers' = AddObserver(obs_observers, observer)
          /\ obs_call' = [name |-> "add_observer", observer |-> observer]
          /\ obs_since' =
                IF obs_since[observer] = 0
                THEN [obs_since EXCEPT ![observer] = obs_clock + 1]
                ELSE obs_since
    /\ obs_prev' = [observers |-> obs_observers, updates |-> obs_updates]
    /\ obs_clock' = obs_clock + 1
    /\ UNCHANGED << obs_received, obs_updates >>
    /\ UNCHANGED notObsVars

\* remove_observer(observer)
ObsRemoveObserver ==
    /\ obs_clock + 1 \in ObservableCalls
    /\ \E observer \in Subscribers :
          /\ obs_observers' = RemoveObserver(obs_observers, observer)
          /\ obs_call' = [name |-> "remove_observer", observer |-> observer]
          /\ obs_since' = [obs_since EXCEPT ![observer] = 0]
    /\ obs_prev' = [observers |-> obs_observers, updates |-> obs_updates]
    /\ obs_clock' = obs_clock + 1
    /\ UNCHANGED << obs_received, obs_updates >>
    /\ UNCHANGED notObsVars

\* notify_observers(plan_data)
ObsNotifyObservers ==
    /\ obs_clock + 1 \in ObservableCalls
    /\ \E plan_data \in ObservableEvents :
          /\ obs_received' =
                NotifyObservers(obs_observers, obs_received, plan_data)
          /\ obs_updates' = obs_updates \o UpdateCalls(obs_observers, plan_data)
          /\ obs_call' = [name |-> "notify_observers", plan_data |-> plan_data]
    /\ obs_prev' = [observers |-> obs_observers, updates |-> obs_updates]
    /\ obs_clock' = obs_clock + 1
    /\ UNCHANGED << obs_observers, obs_since >>
    /\ UNCHANGED notObsVars

ObsNext ==
    \/ ObsAddObserver
    \/ ObsRemoveObserver
    \/ ObsNotifyObservers

(***************************************************************************)
(* Specifications                                                          *)
(***************************************************************************)
\* A run of one component; the others stay as constructed.
InitUCB ==
    /\ UCBInit
    /\ BonConfigDefault /\ BonIdle
    /\ DivConfigDefault /\ DivIdle
    /\ RebConfigDefault /\ RebIdle
    /\ TotConfigDefault /\ TotIdle
    /\ MoaConfigDefault /\ MoaIdle
    /\ VpConfigDefault /\ VpIdle
    /\ SsConfigDefault /\ SsIdle
    /\ McConfigDefault /\ McIdle
    /\ AsConfigDefault /\ AsIdle
    /\ ObservableInit

SpecUCB == InitUCB /\ [][UCBNext]_vars

SpecUCBSigned == InitUCB /\ [][UCBSignedNext]_vars

InitBestOfN ==
    /\ BonInit
    /\ DivConfigDefault /\ DivIdle
    /\ UcbConfigDefault /\ UcbFresh
    /\ RebConfigDefault /\ RebIdle
    /\ TotConfigDefault /\ TotIdle
    /\ MoaConfigDefault /\ MoaIdle
    /\ VpConfigDefault /\ VpIdle
    /\ SsConfigDefault /\ SsIdle
    /\ McConfigDefault /\ McIdle
    /\ AsConfigDefault /\ AsIdle
    /\ ObservableInit

SpecBestOfN == InitBestOfN /\ [][BonNext]_vars

InitDiverseSampling ==
    /\ DivInit
    /\ UcbConfigDefault /\ UcbFresh
    /\ BonConfigDefault /\ BonIdle
    /\ RebConfigDefault /\ RebIdle
    /\ TotConfigDefault /\ TotIdle
    /\ MoaConfigDefault /\ MoaIdle
    /\ VpConfigDefault /\ VpIdle
    /\ SsConfigDefault /\ SsIdle
    /\ McConfigDefault /\ McIdle
    /\ AsConfigDefault /\ AsIdle
    /\ ObservableInit

SpecDiverseSampling == InitDiverseSampling /\ [][DivNext]_vars

InitREBASE ==
    /\ RebInit
    /\ UcbConfigDefault /\ UcbFresh
    /\ BonConfigDefault /\ BonIdle
    /\ DivConfigDefault /\ DivIdle
    /\ TotConfigDefault /\ TotIdle
    /\ MoaConfigDefault /\ MoaIdle
    /\ VpConfigDefault /\ VpIdle
    /\ SsConfigDefault /\ SsIdle
    /\ McConfigDefault /\ McIdle
    /\ AsConfigDefault /\ AsIdle
    /\ ObservableInit

SpecREBASE == InitREBASE /\ [][RebNext]_vars

InitTreeOfThought ==
    /\ TotInit
    /\ UcbConfigDefault /\ UcbFresh
    /\ BonConfigDefault /\ BonIdle
    /\ DivConfigDefault /\ DivIdle
    /\ RebConfigDefault /\ RebIdle
    /\ MoaConfigDefault /\ MoaIdle
    /\ VpConfigDefault /\ VpIdle
    /\ SsConfigDefault /\ SsIdle
    /\ McConfigDefault /\ McIdle
    /\ AsConfigDefault /\ AsIdle
    /\ ObservableInit

SpecTreeOfThought == InitTreeOfThought /\ [][TotNext]_vars

InitMixtureOfAlgorithms ==
    /\ MoaInit
    /\ UcbConfigDefault /\ UcbFresh
    /\ BonConfigDefault /\ BonIdle
    /\ DivConfigDefault /\ DivIdle
    /\ RebConfigDefault /\ RebIdle
    /\ TotConfigDefault /\ TotIdle
    /\ VpConfigDefault /\ VpIdle
    /\ SsConfigDefault /\ SsIdle
    /\ McConfigDefault /\ McIdle
    /\ AsConfigDefault /\ AsIdle
    /\ ObservableInit

SpecMixtureOfAlgorithms == InitMixtureOfAlgorithms /\ [][MoaNext]_vars

InitVerifyPlan ==
    /\ VpInit
    /\ UcbConfigDefault /\ UcbFresh
    /\ BonConfigDefault /\ BonIdle
    /\ DivConfigDefault /\ DivIdle
    /\ RebConfigDefault /\ RebIdle
    /\ TotConfigDefault /\ TotIdle
    /\ MoaConfigDefault /\ MoaIdle
    /\ SsConfigDefault /\ SsIdle
    /\ McConfigDefault /\ McIdle
    /\ AsConfigDefault /\ AsIdle
    /\ ObservableInit

SpecVerifyPlan == InitVerifyPlan /\ [][VpNext]_vars

InitSolveStream ==
    /\ SsInit
    /\ UcbConfigDefault /\ UcbFresh
    /\ BonConfigDefault /\ BonIdle
    /\ DivConfigDefault /\ DivIdle
    /\ RebConfigDefault /\ RebIdle
    /\ TotConfigDefault /\ TotIdle
    /\ MoaConfigDefault /\ MoaIdle
    /\ VpConfigDefault /\ VpIdle
    /\ McConfigDefault /\ McIdle
    /\ AsConfigDefault /\ AsIdle
    /\ ObservableInit

SpecSolveStream == InitSolveStream /\ [][SsNext]_vars

InitMoaConstruction ==
    /\ McInit
    /\ UcbConfigDefault /\ UcbFresh
    /\ BonConfigDefault /\ BonIdle
    /\ DivConfigDefault /\ DivIdle
    /\ RebConfigDefault /\ RebIdle
    /\ TotConfigDefault /\ TotIdle
    /\ MoaConfigDefault /\ MoaIdle
    /\ VpConfigDefault /\ VpIdle
    /\ SsConfigDefault /\ SsIdle
    /\ AsConfigDefault /\ AsIdle
    /\ ObservableInit

SpecMoaConstruction == InitMoaConstruction /\ [][McNext]_vars

InitAdaptiveSampling ==
    /\ AsInit
    /\ UcbConfigDefault /\ UcbFresh
    /\ BonConfigDefault /\ BonIdle
    /\ DivConfigDefault /\ DivIdle
    /\ RebConfigDefault /\ RebIdle
    /\ TotConfigDefault /\ TotIdle
    /\ MoaConfigDefault /\ MoaIdle
    /\ VpConfigDefault /\ VpIdle
    /\ SsConfigDefault /\ SsIdle
    /\ McConfigDefault /\ McIdle
    /\ ObservableInit

SpecAdaptiveSampling == InitAdaptiveSampling /\ [][AsNext]_vars

InitObservable ==
    /\ ObservableInit
    /\ UcbConfigDefault /\ UcbFresh
    /\ BonConfigDefault /\ BonIdle
    /\ DivConfigDefault /\ DivIdle
    /\ RebConfigDefault /\ RebIdle
    /\ TotConfigDefault /\ TotIdle
    /\ MoaConfigDefault /\ MoaIdle
    /\ VpConfigDefault /\ VpIdle
    /\ SsConfigDefault /\ SsIdle
    /\ McConfigDefault /\ McIdle
    /\ AsConfigDefault /\ AsIdle

SpecObservable == InitObservable /\ [][ObsNext]_vars

(***************************************************************************)
(* Claims about UCB                                                        *)
(***************************************************************************)
AllPulled == \A a \in Arms : counts[a] >= 1

\* The arithmetic mean of the rewards of arm a is at least that of arm b
\* (both pulled): sum_a / n_a >= sum_b / n_b, in integers.
MeanGe(a, b) == reward_sum[a] * counts[b] >= reward_sum[b] * counts[a]

\* The first arm, in algorithm_names order, of the highest arithmetic mean.
FirstOfHighestMean ==
    algorithm_names[CHOOSE i \in 1 .. Len(algorithm_names) :
        /\ \A b \in Arms : MeanGe(algorithm_names[i], b)
        /\ \A j \in 1 .. (i - 1) :
              ~MeanGe(algorithm_names[j], algorithm_names[i])]

\* C9: while some arm has zero pulls, select_algorithm returns the first arm
\* of algorithm_names with zero pulls; so in a loop of select_algorithm
\* followed by update of the returned arm, no arm is selected a second time
\* before every arm has been selected once (the first K selections are the
\* K arms).
C9_UntriedArmsFirst ==
    /\ (ucb_call = "select_algorithm" /\ \E a \in Arms : counts[a] = 0)
          => /\ counts[ucb_ret] = 0
             /\ \A j \in 1 .. (ArmIndex(ucb_ret) - 1) :
                   counts[algorithm_names[j]] # 0
    /\ loop_only
          => /\ \A a, b \in Arms : counts[a] >= 2 => counts[b] >= 1
             /\ total_pulls <= Len(algorithm_names)
                   => \A a \in Arms : counts[a] <= 1

\* C9 witness: the loop has run once per arm and has pulled each arm once.
C9_Witness ==
    /\ loop_only
    /\ ucb_call = "update"
    /\ total_pulls = Len(algorithm_names)
    /\ \A a \in Arms : counts[a] = 1

\* The stored float v (not negative) is the fraction p / q to within a
\* relative error of 2^-50: |v - p/q| * 2^50 <= p/q, in integers.
FloatNear(v, p, q) ==
    LET up == IF v.e > 0 THEN v.e ELSE 0
        dn == IF v.e < 0 THEN -v.e ELSE 0
        a  == BShl(BMul(v.m, BFromNat(q)), up)
        b  == BShl(BFromNat(p), dn)
        d  == IF BCmp(a, b) >= 0 THEN BSub(a, b) ELSE BSub(b, a)
    IN  ~v.neg /\ BCmp(BShl(d, 50), b) <= 0

\* C11: after any sequence of update calls, for every arm updated n >= 1
\* times counts[arm] = n and the running mean of update's rule is, in exact
\* arithmetic, the arithmetic mean of the arm's rewards (value * count =
\* sum of rewards); the float stored in values[arm] is that mean rounded.
C11_RunningMeanIsArithmeticMean ==
    /\ \A a \in Arms :
          /\ counts[a] = updates[a]
          /\ counts[a] >= 1 =>
                /\ exact_values[a].p * counts[a]
                      = reward_sum[a] * exact_values[a].q
                /\ FloatNear(values[a], reward_sum[a], counts[a])
    /\ total_pulls = updates["Best of N"] + updates["Tree of Thought"]
                        + updates["REBASE"]

\* An arm has been updated three times with rewards that differ, and its
\* stored mean is not a whole number.
C11_Witness ==
    /\ ucb_call = "update"
    /\ \E a \in Arms :
          /\ updates[a] = 3
          /\ reward_sum[a] = 250
          /\ exact_values[a] = [p |-> 250, q |-> 3]

\* The UCB score of arm a in the current state.
ScoreOf(a) == UcbScores(counts, values, total_pulls, exploration_weight)[a]

\* C12: when every arm has been pulled, select_algorithm returns an arm whose
\* score mean + exploration_weight * sqrt(ln(total_pulls) / pulls) no arm
\* exceeds, and every arm before it in algorithm_names has a strictly lower
\* score; hence no arm pulled at most as often has a higher stored mean.
C12_FirstOfHighestUcbScore ==
    (ucb_call = "select_algorithm" /\ AllPulled) =>
        /\ \A b \in Arms : ~FGt(ScoreOf(b), ScoreOf(ucb_ret))
        /\ \A b \in Arms :
              ArmIndex(b) < ArmIndex(ucb_ret)
                  => FGt(ScoreOf(ucb_ret), ScoreOf(b))
        /\ \A b \in Arms :
              counts[b] <= counts[ucb_ret]
                  => ~FGt(values[b], values[ucb_ret])

\* select_algorithm has returned the first of two arms of the same highest
\* score, which is not the first arm of the list, with the default weight.
C12_Witness ==
    /\ ucb_call = "select_algorithm"
    /\ AllPulled
    /\ exploration_weight = 2
    /\ ucb_ret = "Tree of Thought"
    /\ ScoreOf("REBASE") = ScoreOf(ucb_ret)

\* C10 as stated: once every arm has been updated, get_best_algorithm
\* returns the arm of the highest arithmetic mean of its rewards, the first
\* in algorithm_names order among ties.
C10_FirstOfHighestMean ==
    (ucb_call = "get_best_algorithm" /\ AllPulled)
        => ucb_ret = FirstOfHighestMean

\* C10 amended: once every arm has been updated, get_best_algorithm returns
\* an arm of the highest arithmetic mean, namely the first arm in
\* algorithm_names order whose stored (float) running mean is maximal.
C10_FirstOfHighestStoredMean ==
    (ucb_call = "get_best_algorithm" /\ AllPulled)
        => /\ \A b \in Arms : MeanGe(ucb_ret, b)
           /\ \A b \in Arms : ~FGt(values[b], values[ucb_ret])
           /\ \A j \in 1 .. (ArmIndex(ucb_ret) - 1) :
                 FGt(values[ucb_ret], values[algorithm_names[j]])

\* C10 witness: get_best_algorithm has answered with every arm updated and
\* two arms of the same arithmetic mean whose stored means differ.
C10_Witness ==
    /\ ucb_call = "get_best_algorithm"
    /\ AllPulled
    /\ \E b \in Arms :
          /\ b # ucb_ret
          /\ MeanGe(b, ucb_ret)
          /\ FGt(values[ucb_ret], values[b])

(***************************************************************************)
(* Claims about BestOfN                                                    *)
(***************************************************************************)
\* C1: when BestOfN.run returns, best_score is the maximum of the n_plans
\* candidate scores, and best_idx and best_plan are the index and the plan
\* of the lowest-index candidate with that score, for every sampling
\* strategy, sequential or parallel.
C1_FirstMaximumWins ==
    bon_pc = "done"
        => /\ Len(results) = n_plans
           /\ \A j \in 1 .. Len(results) : results[j].score <= best_score
           /\ best_idx \in 0 .. (Len(results) - 1)
           /\ results[best_idx + 1].score = best_score
           /\ \A j \in 1 .. best_idx : results[j].score < best_score
           /\ best_plan = results[best_idx + 1].plan

\* C1 witness: a parallel run has returned index 1 for scores like
\* [10, 90, 30, 90], whose maximum is also at index 3, and the two plans of
\* score 90 differ.
C1_Witness ==
    /\ bon_pc = "done"
    /\ parallel
    /\ sampling_strategy = "basic"
    /\ Len(results) = 4
    /\ ScoresOf(results) = << 10, 90, 30, 90 >>
    /\ results[2].plan # results[4].plan
    /\ best_idx = 1
    /\ best_score = 90

(***************************************************************************)
(* Claims about REBASE                                                     *)
(***************************************************************************)
\* The refinement attempts made so far.
Attempts == Len(iterations) - 1

\* C2: a refinement attempt with refined score r against current score c
\* ends the loop iff r <= c + improvement_threshold, and then the plan and
\* score from before the attempt are what run returns; otherwise the refined
\* plan becomes current and refinement goes on.  So every attempt but a
\* rejected last one raised the score by more than the threshold, and if the
\* first attempt is rejected, it is the only attempt and the initial plan
\* and score are returned.
C2_RefineUntilInsufficient ==
    reb_pc \in { "refine", "complete", "done" }
        => /\ iteration \in { Attempts, Attempts - 1 }
           \* accepted attempts: each became the current plan
           /\ \A k \in 1 .. iteration :
                 iterations[k + 1].score
                    > iterations[k].score + improvement_threshold
           /\ current_plan = iterations[iteration + 1].plan
           /\ current_score = iterations[iteration + 1].score
           \* a rejected attempt: the last one, and the loop is left
           /\ iteration = Attempts - 1
                 => /\ reb_pc # "refine"
                    /\ iterations[Attempts + 1].score
                          <= current_score + improvement_threshold
           \* no attempt is given up while the loop may go on
           /\ (reb_pc # "refine" /\ iteration = Attempts)
                 => iteration >= max_iterations
           /\ (reb_pc = "done" /\ Attempts >= 1
                 /\ iterations[2].score
                       <= iterations[1].score + improvement_threshold)
                 => /\ Attempts = 1
                    /\ current_plan = iterations[1].plan
                    /\ current_score = iterations[1].score

\* C2 witness: run has returned the initial plan after one attempt whose
\* score was exactly the initial score plus the threshold, with more
\* attempts allowed and a refined plan that differs from the initial plan.
C2_Witness ==
    /\ reb_pc = "done"
    /\ max_iterations >= 2
    /\ improvement_threshold > 0
    /\ Attempts = 1
    /\ iterations[2].score = iterations[1].score + improvement_threshold
    /\ iterations[2].plan # iterations[1].plan
    /\ current_plan = iterations[1].plan
    /\ current_score = iterations[1].score


(***************************************************************************)
(* TreeOfThought: claims                                                   *)
(***************************************************************************)
\* The places in all_paths of the plans the completion check judged
\* complete; their score is the one the plan verifier gave.
CompletePaths == { i \in DOMAIN all_paths : all_paths[i].complete }

\* The number of nodes the search generated and scored.
ExpandedPaths == { i \in DOMAIN all_paths : ~all_paths[i].complete }

\* C3: when run returns a plan judged complete, the returned best_score is
\* the score the plan verifier gave that plan, and among several complete
\* nodes of the level the returned one has the highest verifier score.
C3_VerifierScoreReturned ==
    (tot_pc = "done" /\ CompletePaths # {}) =>
        \E i \in CompletePaths :
            /\ all_paths[i].steps = tot_best_plan
            /\ all_paths[i].score = tot_best_score
            /\ \A j \in CompletePaths :
                  all_paths[j].score <= all_paths[i].score

\* What run does at the first level with a complete node: a completed plan
\* is returned, every complete node is of that level, the level is the last
\* turn of the loop, and every node generated or scored is at most one step
\* deeper than the nodes of that level.
StopsAtCompleteLevel ==
    /\ \E i \in CompletePaths : all_paths[i].steps = tot_best_plan
    /\ \A i \in CompletePaths : all_paths[i].depth = depth
    /\ levels = depth + 1
    /\ \A i \in ExpandedPaths : all_paths[i].depth <= depth + 1
    /\ generate_calls = Cardinality(ExpandedPaths)
    /\ evaluate_calls = Cardinality(ExpandedPaths)

\* C4 as stated: run stops at the first level with a complete node, returns
\* a completed plan and makes no call for a deeper level; with no complete
\* node it expands exactly max_depth levels.
C4_ExpandsMaxDepthLevels ==
    tot_pc = "done" =>
        IF CompletePaths # {} THEN StopsAtCompleteLevel
        ELSE levels = max_depth

\* C4: run stops at the first level with a complete node, returns a
\* completed plan and makes no call for a deeper level; with no complete
\* node it expands exactly max_depth levels if branching_factor >= 1 and
\* beam_width >= 1, and otherwise stops after the first level, which leaves
\* the beam empty.
C4_StopsAtFirstCompleteLevel ==
    tot_pc = "done" =>
        IF CompletePaths # {} THEN StopsAtCompleteLevel
        ELSE /\ levels = IF branching_factor >= 1 /\ beam_width >= 1
                         THEN max_depth
                         ELSE Min2(1, max_depth)
             /\ generate_calls = Cardinality(ExpandedPaths)
             /\ evaluate_calls = Cardinality(ExpandedPaths)
             /\ \A i \in ExpandedPaths : all_paths[i].depth <= levels

\* run has returned a completed plan from the second of three levels, while
\* an incomplete node of next_beam has a higher step score than the node
\* returned.
C4_Witness ==
    /\ tot_pc = "done"
    /\ max_depth = 3
    /\ levels = 2
    /\ CompletePaths # {}
    /\ \E i \in DOMAIN next_beam, j \in DOMAIN next_beam :
          /\ next_beam[i].complete
          /\ next_beam[i].steps = tot_best_plan
          /\ ~next_beam[j].complete
          /\ next_beam[j].score > next_beam[i].score

\* C5: with no node ever judged complete, and branching_factor,
\* beam_width and max_depth at least 1, run returns the plan and the
\* step-reward score of the first node of the final beam that has the
\* highest score.
C5_BestEffortFromFinalBeam ==
    (/\ tot_pc = "done"
     /\ CompletePaths = {}
     /\ branching_factor >= 1 /\ beam_width >= 1 /\ max_depth >= 1) =>
        /\ beam # << >>
        /\ \E i \in DOMAIN beam :
              /\ beam[i].steps = tot_best_plan
              /\ beam[i].score = tot_best_score
              /\ \A j \in DOMAIN beam : beam[j].score <= beam[i].score
              /\ \A j \in 1 .. (i - 1) : beam[j].score < beam[i].score
        /\ \E i \in ExpandedPaths :
              /\ all_paths[i].steps = tot_best_plan
              /\ all_paths[i].score = tot_best_score

\* Three levels without a complete node end with a beam of two nodes of the
\* same score, and the first is returned.
C5_Witness ==
    /\ tot_pc = "done"
    /\ CompletePaths = {}
    /\ max_depth = 3
    /\ Len(beam) = 2
    /\ beam[1].score = beam[2].score
    /\ beam[1].steps # beam[2].steps
    /\ tot_best_plan = beam[1].steps
    /\ Len(tot_best_plan) = 3

(***************************************************************************)
(* MixtureOfAlgorithms: claims                                             *)
(***************************************************************************)
\* The child runs made so far.
ChildRuns == DOMAIN moa_iterations

\* C6: after every round the current result is the plan and the score of
\* the first child run of the highest score, so run returns the maximum of
\* the scores in metadata['iterations'] and, on a tie, the earlier result.
C6_KeepsHighestScoringRun ==
    moa_pc \in { "loop", "return", "done" } =>
        \E i \in ChildRuns :
            /\ moa_iterations[i].plan = moa_current_plan
            /\ moa_iterations[i].score = moa_current_score
            /\ \A j \in ChildRuns :
                  moa_iterations[j].score <= moa_current_score
            /\ \A j \in 1 .. (i - 1) :
                  moa_iterations[j].score < moa_current_score

\* run has returned after three child runs: the second improved on the
\* first, the third tied with the second, and the second is returned.
C6_Witness ==
    /\ moa_pc = "done"
    /\ Len(moa_iterations) = 3
    /\ moa_iterations[1].score < moa_iterations[2].score
    /\ moa_iterations[3].score = moa_iterations[2].score
    /\ moa_current_plan = moa_iterations[2].plan
    /\ moa_current_plan # moa_iterations[3].plan

\* At most 1 + max_algorithm_switches child runs, one for each entry of
\* algorithm_history, no two in a row of the same strategy, and none after a
\* skipped switch.
BoundedSwitching ==
    /\ Len(moa_iterations) <= 1 + max_algorithm_switches
    /\ moa_pc \in { "loop", "return", "done" } =>
          /\ Len(moa_iterations) = Len(algorithm_history)
          /\ \A k \in ChildRuns :
                moa_iterations[k].algorithm = algorithm_history[k]
    /\ \A k \in 1 .. (Len(algorithm_history) - 1) :
          algorithm_history[k] # algorithm_history[k + 1]
    /\ switch_skipped => moa_pc \in { "return", "done" }

\* C7: run makes at most 1 + max_algorithm_switches child runs; once the
\* strategy recommended is the current one it stops switching and runs no
\* further child, and no strategy is run twice in a row.  The steps are
\* those of one call of run: a new call starts with new locals.
C7_BoundedSwitchingNoRepeat ==
    /\ []BoundedSwitching
    /\ [][(moa_pc' # "start" /\ (switch_skipped \/ switch_skipped'))
             => moa_iterations' = moa_iterations]_vars

\* With two switches allowed, the first switch was made, the second
\* recommendation was the current strategy, and run returned after two
\* child runs.
C7_Witness ==
    /\ moa_pc = "done"
    /\ max_algorithm_switches = 2
    /\ switch_skipped
    /\ Len(moa_iterations) = 2
    /\ Len(responses) = 3

\* The number of child runs of a strategy.
RunsOf(a) == Cardinality({ k \in ChildRuns : moa_iterations[k].algorithm = a })

\* C8: the strategy run is the one UCB.select_algorithm returns on the arm
\* state owned by the instance, and after each child run that arm's pull
\* count is updated: the first strategy run is the one the bandit selects
\* on its arms, each arm has as many pulls as the strategy has child runs,
\* and there are as many pulls as child runs.  The code does not have this
\* property: run picks the strategy named in the model's answer, and no
\* statement of MixtureOfAlgorithms creates, reads or updates a bandit.
C8_UCBPicksStrategy ==
    moa_pc \in { "loop", "return", "done" } =>
        /\ algorithm_history[1] = SelectAlgorithm(counts, values, total_pulls,
                                                  exploration_weight)
        /\ \A a \in Arms : counts[a] = RunsOf(a)
        /\ total_pulls = Len(moa_iterations)

\* The log holds an algorithm_start event of the type and, later, an
\* algorithm_complete event of the type.
StartThenComplete(log, type) ==
    \E i, j \in DOMAIN log :
       /\ i < j
       /\ log[i].algorithm_type = type
       /\ log[i].event = "algorithm_start"
       /\ log[j].algorithm_type = type
       /\ log[j].event = "algorithm_complete"

\* Every registered observer has received the two events.
ReceivedByAll(observers, received, type) ==
    \A k \in DOMAIN observers :
       StartThenComplete(received[observers[k]], type)

\* C13: when run of BestOfN, TreeOfThought, REBASE or MixtureOfAlgorithms
\* has returned, every observer registered before the run has received an
\* algorithm_start event and, later, an algorithm_complete event, both with
\* the algorithm's type name in algorithm_type.
C13_StartAndCompletePublished ==
    /\ bon_pc = "done" =>
          ReceivedByAll(bon_observers, bon_received, "BestOfN")
    /\ tot_pc = "done" =>
          ReceivedByAll(tot_observers, tot_received, "TreeOfThought")
    /\ reb_pc = "done" =>
          ReceivedByAll(reb_observers, reb_received, "REBASE")
    /\ moa_pc = "done" =>
          ReceivedByAll(moa_observers, moa_received, "MixtureOfAlgorithms")

\* A run on the problem has made no progress, or has failed with
\* ValueError, and in either case no collaborator was called and no event
\* was published.
RejectedBeforeAnyCall(problem, pc, raised, called, received) ==
    Strip(problem) = << >> =>
       /\ pc \in { "start", "raised" }
       /\ pc = "raised" => raised = "ValueError"
       /\ ~called
       /\ received = NothingReceived

\* C14: run of BestOfN, TreeOfThought, REBASE or MixtureOfAlgorithms on an
\* empty or whitespace-only problem statement fails with ValueError before
\* the constraint agent, the model or the verifier is called and before any
\* event is published.
C14_EmptyProblemRejectedFirst ==
    /\ RejectedBeforeAnyCall(bon_problem, bon_pc, bon_raised, bon_called,
                             bon_received)
    /\ RejectedBeforeAnyCall(tot_problem, tot_pc, tot_raised, tot_called,
                             tot_received)
    /\ RejectedBeforeAnyCall(reb_problem, reb_pc, reb_raised, reb_called,
                             reb_received)
    /\ RejectedBeforeAnyCall(moa_problem, moa_pc, moa_raised, moa_called,
                             moa_received)

\* A run on a non-empty problem has raised nothing or RuntimeError, the one
\* wrapped execution error.
OneFailureSurface(problem, raised) ==
    Strip(problem) # << >> => raised \in { "None", "RuntimeError" }

\* C15: run of BestOfN, TreeOfThought, REBASE or MixtureOfAlgorithms on a
\* non-empty problem returns its triple or raises RuntimeError: a failure
\* of the model, the constraint agent or the verifier never reaches the
\* caller as the collaborator's own exception type.
C15_FailuresWrappedInRuntimeError ==
    /\ OneFailureSurface(bon_problem, bon_raised)
    /\ OneFailureSurface(tot_problem, tot_raised)
    /\ OneFailureSurface(reb_problem, reb_raised)
    /\ OneFailureSurface(moa_problem, moa_raised)

\* The delegated_update events of a log, in the order received.
DelegatedIn(log) ==
    SelectSeq(log, LAMBDA plan_data : plan_data.event = "delegated_update")

\* The children's events of this run, each inside its delegated_update.
ChildEventsDelegated ==
    [i \in 1 .. Len(child_published) |->
        DelegatedUpdate(child_published[i])]

\* C16: in every run of a MixtureOfAlgorithms instance, the first or a later
\* one, the delegated_update events an observer of the instance has received
\* are the events the children have published in the run, each once and in
\* publication order, with algorithm_type MixtureOfAlgorithms,
\* delegated_algorithm the child's type and algorithm_data the child's event;
\* and the instance is in a child's observer list at most once.
C16_ChildEventsDelegatedOnce ==
    /\ \A k \in DOMAIN moa_observers :
          DelegatedIn(moa_received[moa_observers[k]]) = ChildEventsDelegated
    /\ \A i \in DOMAIN child_published :
          /\ DelegatedUpdate(child_published[i]).algorithm_type
                = "MixtureOfAlgorithms"
          /\ DelegatedUpdate(child_published[i]).delegated_algorithm
                \in { ChildType(a) : a \in Arms }
          /\ DelegatedUpdate(child_published[i]).algorithm_data
                = child_published[i]
    /\ \A c \in Arms :
          Cardinality({ i \in DOMAIN child_observers[c] :
                           child_observers[c][i] = "moa" }) <= 1

\* In a second run of the instance BestOfN and then REBASE have run, and
\* each observer has received the fourteen events of the two.
C16_Witness ==
    /\ moa_run = 2
    /\ moa_pc = "done"
    /\ algorithm_history = << "Best of N", "REBASE" >>
    /\ Len(child_published) = 14
    /\ \A k \in DOMAIN moa_observers :
          Len(DelegatedIn(moa_received[moa_observers[k]])) = 14

\* The tasks of _parallel_generate that have been submitted and have not
\* ended.
InFlight == { k \in DOMAIN futures : futures[k].st \notin { "done", "failed" } }

\* C17: in parallel mode with diverse or adaptive sampling at most one task
\* of BestOfN is in flight; when the task of a candidate is submitted every
\* task before it has generated and verified its candidate, and the task was
\* given exactly the results of the tasks before it, in index order.
C17_DiverseAdaptiveOneAtATime ==
    (parallel /\ sampling_strategy \in { "diverse", "adaptive" }) =>
       /\ Cardinality(InFlight) <= 1
       /\ \A k \in DOMAIN futures :
             /\ \A j \in 1 .. (k - 1) : futures[j].st = "done"
             /\ futures[k].previous_results =
                   [j \in 1 .. (k - 1) |-> FutureResult(futures[j])]

\* The third task of a diverse run is in flight and was given the two
\* results before it, which differ.
C17_Witness ==
    /\ parallel
    /\ sampling_strategy = "diverse"
    /\ Len(futures) = 3
    /\ InFlight = { 3 }
    /\ Len(futures[3].previous_results) = 2
    /\ futures[3].previous_results[1] # futures[3].previous_results[2]

\* C18: in parallel basic mode, once _parallel_generate has returned,
\* results holds at index k the plan and the score of the k-th task
\* submitted, whether or not a task has ended before one submitted earlier;
\* the best index and the returned plan are those of the first task of the
\* highest score.
C18_ResultsInSubmissionOrder ==
    (parallel /\ sampling_strategy = "basic"
        /\ bon_pc \in { "select", "done" }) =>
       /\ Len(results) = n_plans
       /\ Len(futures) = n_plans
       /\ \A k \in DOMAIN futures :
             /\ results[k].plan = futures[k].plan
             /\ results[k].score = futures[k].score
       /\ bon_pc = "done" =>
             /\ \A k \in DOMAIN futures :
                   futures[k].score <= futures[best_idx + 1].score
             /\ \A k \in 1 .. best_idx :
                   futures[k].score < futures[best_idx + 1].score
             /\ best_plan = futures[best_idx + 1].plan

\* A task has ended before one submitted earlier, the first and the last of
\* three tasks have the highest score and different plans, and the first is
\* returned.
C18_Witness ==
    /\ parallel
    /\ sampling_strategy = "basic"
    /\ bon_pc = "done"
    /\ overtaken
    /\ Len(futures) = 3
    /\ futures[1].score = futures[3].score
    /\ futures[2].score < futures[1].score
    /\ futures[1].plan # futures[3].plan
    /\ best_idx = 0
    /\ best_plan = futures[1].plan

\* The places of a log that hold the event of the name built by the task.
PlacesOf(log, event, k) ==
    { i \in DOMAIN log : log[i].event = event /\ log[i].worker = k }

\* The observer at place p of the list has been given the start event of
\* task k; the completion event.
StartGiven(k, p) ==
    ~(futures[k].st = "submitted" /\ p > futures[k].notified)

CompleteGiven(k, p) ==
    \/ futures[k].st = "done"
    \/ futures[k].st = "verified" /\ p <= futures[k].notified

WorkerEventsOnce ==
    (parallel /\ sampling_strategy = "basic") =>
       \A k \in DOMAIN futures : \A p \in DOMAIN bon_observers :
          LET log == bon_received[bon_observers[p]]
              starts == PlacesOf(log, "plan_generation_start", k)
              completes == PlacesOf(log, "plan_generation_complete", k)
          IN  /\ Cardinality(starts) = IF StartGiven(k, p) THEN 1 ELSE 0
              /\ Cardinality(completes) = IF CompleteGiven(k, p) THEN 1 ELSE 0
              /\ \A i \in starts : \A j \in completes : i < j

\* C19: in parallel basic BestOfN, in every interleaving of the workers,
\* every registered observer is given the plan_generation_start event and
\* the plan_generation_complete event of each worker exactly once, the start
\* before the completion, each event is one the worker built itself, a
\* worker that has returned has given both to every observer, and no step
\* changes the observer list.
C19_WorkerEventsOncePerObserver ==
    /\ []WorkerEventsOnce
    /\ [][bon_observers' = bon_observers]_vars

\* Two workers have returned, one before the other that was submitted
\* first, and the two observers were given the four events in different
\* orders.
C19_Witness ==
    /\ parallel
    /\ sampling_strategy = "basic"
    /\ bon_pc = "done"
    /\ Len(futures) = 2
    /\ overtaken
    /\ bon_observers = << "o1", "o2" >>
    /\ \A k \in 1 .. 2 : futures[k].st = "done"
    /\ bon_received["o1"] # bon_received["o2"]
    /\ Len(bon_received["o1"]) = 7
    /\ Len(bon_received["o2"]) = 7

(***************************************************************************)
(* Claims about BestOfN._diverse_sampling                                  *)
(***************************************************************************)
\* The similarity of the plan to every previous plan is below
\* min_similarity.
BelowMinSimilarity(plan) ==
    \A i \in DOMAIN previous_plans :
       /\ ~DividesByZero(plan, previous_plans[i])
       /\ FGt(MinSimilarityFloat(min_similarity),
              Similarity(plan, previous_plans[i]))

\* The plan has the words of a previous plan.
SameWordsAsPrevious(plan) ==
    \E i \in DOMAIN previous_plans :
       /\ PlanWords(plan) # {}
       /\ PlanWords(plan) = PlanWords(previous_plans[i])

\* C20: when _diverse_sampling returns the plan of a candidate that has
\* previous candidates, the plan is the last one generated, every plan
\* generated before it was not below min_similarity to some previous
\* candidate, at most max_retries plans were generated after the first, and
\* the plan returned is below min_similarity to every previous candidate
\* unless max_retries retries were made; so with min_similarity < 1.0 and
\* max_retries >= 1 a first plan with the words of a previous candidate is
\* followed by another generation.
C20_RegeneratedUntilDiverse ==
    (div_pc = "done" /\ previous_plans # << >>) =>
       /\ attempts # << >>
       /\ sampled = attempts[Len(attempts)]
       /\ Len(attempts) <= max_retries + 1
       /\ \A i \in 1 .. (Len(attempts) - 1) :
             ~BelowMinSimilarity(attempts[i])
       /\ \/ BelowMinSimilarity(sampled)
          \/ Len(attempts) = max_retries + 1
       /\ (/\ SameWordsAsPrevious(attempts[1])
           /\ min_similarity # << 1, 1 >>
           /\ max_retries >= 1) => Len(attempts) >= 2

\* C21: in a BestOfN run the constraint agent is called at most once and
\* before any call of the sampling function; when the run returns it was
\* called exactly once and the verification agent exactly n_plans times,
\* once for each result, whatever the sampling strategy and the mode.
C21_OneConstraintCallOneVerifyPerPlan ==
    /\ bon_constraint_calls <= 1
    /\ bon_sample_calls > 0 => bon_constraint_calls = 1
    /\ bon_verify_calls > 0 => bon_constraint_calls = 1
    /\ bon_pc = "done" =>
          /\ bon_constraint_calls = 1
          /\ Len(results) = n_plans
          /\ bon_verify_calls = n_plans
          /\ bon_sample_calls = n_plans

\* A parallel adaptive run of four plans has returned.
C21_Witness ==
    /\ bon_pc = "done"
    /\ parallel
    /\ sampling_strategy = "adaptive"
    /\ n_plans = 4
    /\ bon_constraint_calls = 1
    /\ bon_verify_calls = 4


(***************************************************************************)
(* C22.  In a REBASE run every plan, the initial plan and each refined     *)
(* plan, is scored by exactly one call of the injected plan verifier       *)
(* (self.verification_agent), and the recorded score is the score that     *)
(* verifier returned: when run has returned, the verifier has been called  *)
(* once per entry of iterations and the model has not been asked for a     *)
(* verification.  The code does not have this property: REBASE._verify_plan*)
(* asks the model and parses its text, and never calls the verifier.       *)
(***************************************************************************)
C22_EveryPlanScoredByVerifier ==
    reb_pc = "done" =>
        /\ reb_verifier_calls = Len(iterations)
        /\ reb_llm_verify_calls = 0


(***************************************************************************)
(* Claims about the score read out of a verification text                  *)
(***************************************************************************)
\* The text has no line that starts, after its leading blanks, with "Score:".
NoScoreLine(text) ==
    \A i \in DOMAIN text :
        text[i] = ScoreMark =>
            \E j \in 1 .. (i - 1) :
                /\ text[j] # " "
                /\ \A k \in j .. (i - 1) : text[k] # LineBreak

DigitPlaces(text) == { i \in DOMAIN text : text[i] \in Digits }

HasInteger(text) == DigitPlaces(text) # {}

\* The last integer written in the text: its last digit is the last digit
\* of the text and it reaches back over the digits before it.
LastInteger(text) ==
    LET last  == CHOOSE j \in DigitPlaces(text) :
                     \A k \in DigitPlaces(text) : k <= j
        first == CHOOSE i \in 1 .. last :
                     /\ \A k \in i .. last : text[k] \in Digits
                     /\ i = 1 \/ text[i - 1] \notin Digits
    IN  DigitsValue(SubSeq(text, first, last))

\* C23 as stated: for a verification text without a "Score:" line, the
\* score is the last integer of the text if it has one and the default 50 if
\* it has none; a score is returned (no error) and it is zero only if the
\* last integer is zero.  Not so for a last integer above 100.
C23_FallbackIsLastInteger ==
    vp_pc = "returned" /\ NoScoreLine(vp_response) =>
        /\ vp_score # NoScore
        /\ HasInteger(vp_response) =>
              vp_score = QFromInt(LastInteger(vp_response))
        /\ ~HasInteger(vp_response) => vp_score = QFromInt(50)
        /\ vp_score = QFromInt(0) =>
              HasInteger(vp_response) /\ LastInteger(vp_response) = 0

\* C23, amended: for a verification text without a "Score:" line, the score
\* is the last integer of the text, and 100 if that integer is above 100;
\* it is the default 50 if the text has no integer; a score is returned (no
\* error) and it is zero only if the last integer is zero.
C23_FallbackIsLastIntegerUpTo100 ==
    vp_pc = "returned" /\ NoScoreLine(vp_response) =>
        /\ vp_score # NoScore
        /\ HasInteger(vp_response) =>
              vp_score = QFromInt(IF LastInteger(vp_response) > 100
                                  THEN 100
                                  ELSE LastInteger(vp_response))
        /\ ~HasInteger(vp_response) => vp_score = QFromInt(50)
        /\ vp_score = QFromInt(0) =>
              HasInteger(vp_response) /\ LastInteger(vp_response) = 0

\* A text without a "Score:" line, of two integers of which the last is
\* above 100, has been given the score 100.
C23_Witness ==
    /\ vp_pc = "returned"
    /\ NoScoreLine(vp_response)
    /\ Len(FindAll(vp_response)) = 2
    /\ LastInteger(vp_response) > 100
    /\ vp_score = QFromInt(100)


\* C24: when run has returned, the returned plan and score are the
\* highest-scoring iteration of metadata['iterations']: they are one of the
\* recorded iterations and no recorded iteration has a higher score, whatever
\* the scores and the improvement_threshold >= 0.  The code does not have
\* this property: a refined plan that scores higher than the current plan
\* by no more than the threshold is recorded and dropped.
C24_ReturnsHighestScoringIteration ==
    reb_pc = "done" =>
        /\ \E k \in DOMAIN iterations :
              /\ iterations[k].plan = current_plan
              /\ iterations[k].score = current_score
        /\ \A k \in DOMAIN iterations : iterations[k].score <= current_score


\* The refinement attempts an observer has been told of.
RefinementsNotified(o) ==
    Len(SelectSeq(reb_received[o],
                  LAMBDA plan_data : plan_data.event = "plan_refinement"))

\* iterations is the initial plan followed by one entry for each refinement
\* attempt made, the attempts being the turns of the loop that have verified
\* a refined plan; there are at most max_iterations of them.
InitialThenEveryAttempt ==
    reb_pc \in { "refine", "complete", "done" } =>
        /\ Len(iterations) = 1 + RefinementsNotified("o1")
        /\ Len(iterations) = reb_llm_verify_calls
        /\ RefinementsNotified("o1") <= max_iterations

\* C25: metadata['iterations'] of a REBASE run is append-only (a step that
\* changes it adds one entry at its end and keeps the entries it had) and
\* holds the initial plan followed by every refined plan, a rejected last
\* one included: its length is 1 + the number of refinement attempts, which
\* is never more than max_iterations.
C25_IterationsAppendOnly ==
    /\ []InitialThenEveryAttempt
    /\ [][iterations' # iterations =>
             /\ Len(iterations') = Len(iterations) + 1
             /\ SubSeq(iterations', 1, Len(iterations)) = iterations]_vars

\* C25 witness: run has returned after max_iterations = 3 attempts of which
\* the last was rejected; all four plans are recorded.
C25_Witness ==
    /\ reb_pc = "done"
    /\ max_iterations = 3
    /\ Len(iterations) = 4
    /\ iteration = 2
    /\ iterations[4].score <= iterations[3].score + improvement_threshold
    /\ current_score = iterations[3].score


(***************************************************************************)
(* Claims about PlanGEN.solve_stream                                       *)
(***************************************************************************)
\* The number of the step an update is of.
StepOf(update) ==
    CHOOSE k \in DOMAIN StreamSteps : StreamSteps[k] = update.step

\* The consumer has thrown an exception into the generator.
ThrownInto ==
    \/ stream_pc = "raised"
    \/ \E i \in DOMAIN stream_updates : stream_updates[i].step = "error"

\* The updates of the steps of the workflow: the stream without the update
\* of the except clause, which is its last update when there is one.
StepUpdates == SelectSeq(stream_updates, LAMBDA u : u.step # "error")

\* The stream has ended with every update complete.
FullySuccessful ==
    /\ stream_pc = "returned"
    /\ \A i \in DOMAIN stream_updates : stream_updates[i].status # "error"

\* C26: solve_stream yields its updates in the step order
\* extract_constraints, generate_solutions, verify_solutions,
\* select_solution; of every step that is started two updates are yielded,
\* first in_progress, then complete or error; a step starts only after the
\* complete update of the step before it; a fully successful run yields
\* exactly 8 updates.  The updates are those of the steps: when the
\* consumer throws an exception into the generator, the update of the
\* except clause (step "error") ends the stream in place of the updates
\* still to come.
C26_TwoUpdatesPerStepInOrder ==
    LET n == Len(StepUpdates)
    IN  /\ n <= 2 * Len(StreamSteps)
        /\ \A i \in 1 .. n :
              /\ StepUpdates[i] = stream_updates[i]
              /\ StepUpdates[i].step \in
                    { StreamSteps[k] : k \in DOMAIN StreamSteps }
              /\ StepOf(StepUpdates[i]) = (i + 1) \div 2
              /\ i % 2 = 1 => StepUpdates[i].status = "in_progress"
              /\ i % 2 = 0 =>
                    StepUpdates[i].status \in { "complete", "error" }
              /\ i % 2 = 1 /\ i > 1 =>
                    StepUpdates[i - 1].status = "complete"
        /\ Len(stream_updates) <= n + 1
        /\ stream_pc \in { "complete", "error" } => n > 0 /\ n % 2 = 0
        /\ stream_pc = "returned" /\ ~ThrownInto => n > 0 /\ n % 2 = 0
        /\ FullySuccessful => n = 8 /\ ~ThrownInto

\* C26 witness: a fully successful stream of 8 updates has ended.
C26_Witness ==
    /\ FullySuccessful
    /\ Len(stream_updates) = 8
    /\ stream_updates[8].step = "select_solution"
    /\ stream_updates[8].status = "complete"

\* C27: the error update of a step that failed is the last update of the
\* stream: no update of any step follows it, and the generator, suspended
\* at its yield, returns when it is resumed; it is of the step that failed,
\* carries the failure message in error, and its data holds the results of
\* the steps completed before it, as their complete updates showed them, in
\* the order constraints, solutions, verification_results; it is None when
\* extract_constraints failed.  Only an exception that the consumer throws
\* into the suspended generator puts one more update after it, that of the
\* except clause.
C27_ErrorUpdateEndsStream ==
    \A i \in DOMAIN stream_updates :
        stream_updates[i].status = "error" /\ stream_updates[i].step # "error" =>
            LET update == stream_updates[i]
                k      == StepOf(update)
            IN  /\ i = Len(StepUpdates)
                /\ ~ThrownInto =>
                      /\ i = Len(stream_updates)
                      /\ stream_pc \in { "error", "returned" }
                /\ stream_pc \notin { "start", "in_progress", "complete" }
                /\ i > 1
                /\ stream_updates[i - 1] =
                      [step |-> update.step, status |-> "in_progress",
                       data |-> None, error |-> None]
                /\ update.error # None
                /\ update.error[1][1] = ErrorPrefixes[k]
                /\ update.error[1][2] \in ExceptionMessages
                /\ k = 1 => update.data = None
                /\ k > 1 =>
                      /\ update.data # None
                      /\ Len(update.data[1]) = k - 1
                      /\ \A j \in 1 .. (k - 1) :
                            /\ update.data[1][j][1] = ResultKeys[j]
                            /\ update.data[1][j][2] # None
                            /\ update.data[1][j] =
                                  stream_updates[2 * j].data[1][j]
                            /\ update.data[1][j][2] =
                                  stream_state[ResultKeys[j]]

\* C27 witness: the selection failed after three completed steps, and the
\* error update shows two solutions.
C27_Witness ==
    /\ stream_pc = "returned"
    /\ Len(stream_updates) = 8
    /\ stream_updates[8].step = "select_solution"
    /\ stream_updates[8].status = "error"
    /\ Len(stream_updates[8].data[1]) = 3
    /\ stream_updates[8].data[1][2] =
          << "solutions", Some(<< "Solution 1", "Solution 2" >>) >>


(***************************************************************************)
(* Claims about the construction of MixtureOfAlgorithms                    *)
(***************************************************************************)
\* C28: a MixtureOfAlgorithms constructed with an injected llm_interface,
\* constraint_agent and verification_agent is created successfully (the
\* constructor does not raise, and it ends), and its three child strategies
\* use those same collaborators, so that run can be called on it.  The code
\* does not have this property: the construction of the first child raises
\* TypeError.
C28_InjectedConstructionSucceeds ==
    Collaborators \subseteq moa_kwargs =>
        /\ moa_init_raised = "None"
        /\ moa_init_pc # "raised"
        /\ moa_init_pc = "done" =>
              /\ Len(moa_children) = Len(algorithms)
              /\ \A i \in DOMAIN moa_children :
                    moa_children[i].collaborators =
                        [c \in Collaborators |-> "injected"]


\* The beam nodes the current turn of the depth loop has dealt with.
NodesDone == { i \in DOMAIN beam : i < node_idx }

\* The children of beam node i that are in next_beam: the nodes one step
\* longer than it.
ChildrenIn(nodes, i) ==
    { j \in DOMAIN nodes :
        /\ Len(nodes[j].steps) = Len(beam[i].steps) + 1
        /\ SubSeq(nodes[j].steps, 1, Len(beam[i].steps)) = beam[i].steps }

\* The entries of all_paths for plans scored by the step reward, and those
\* for plans scored by the plan verifier.
StepScored == { j \in DOMAIN all_paths : ~all_paths[j].complete }

VerifierScored == { j \in DOMAIN all_paths : all_paths[j].complete }

\* C29: at each depth every beam node that is not judged complete is
\* expanded into exactly branching_factor children, and each child is scored
\* exactly once, by the step-reward evaluation and not by the plan verifier
\* (which scores the complete nodes only); with max_depth = 1,
\* branching_factor = 3 and beam_width = 1 exactly 3 children are scored in
\* the whole run.  In a run that a call has left with an exception the call
\* that raised is counted and has scored no child.
C29_EachChildScoredOnceByStepReward ==
    /\ tot_pc = "nodes" =>
          \A i \in NodesDone :
              IF beam[i].complete
              THEN ChildrenIn(next_beam, i) = {}
              ELSE Cardinality(ChildrenIn(next_beam, i)) = branching_factor
    /\ tot_pc = "nodes" =>
          Len(next_beam) =
              Cardinality({ i \in NodesDone : beam[i].complete })
              + branching_factor
                  * Cardinality({ i \in NodesDone : ~beam[i].complete })
    /\ tot_pc # "raised" =>
          /\ evaluate_calls = Cardinality(StepScored)
          /\ generate_calls = evaluate_calls
          /\ verify_calls = Cardinality(VerifierScored)
    /\ tot_pc = "raised" =>
          /\ evaluate_calls - Cardinality(StepScored) \in { 0, 1 }
          /\ verify_calls - Cardinality(VerifierScored) \in { 0, 1 }
          /\ evaluate_calls <= generate_calls
    /\ \A j, k \in StepScored :
          all_paths[j].steps = all_paths[k].steps => j = k
    /\ \A j \in DOMAIN next_beam :
          ~next_beam[j].complete =>
              Cardinality({ k \in StepScored :
                              all_paths[k].steps = next_beam[j].steps }) = 1
    /\ (tot_pc = "done" /\ max_depth = 1 /\ branching_factor = 3
           /\ beam_width = 1)
          => evaluate_calls = 3 /\ verify_calls = 0

\* C29 witness: the run with max_depth = 1, branching_factor = 3 and
\* beam_width = 1 has returned after scoring three children.
C29_Witness ==
    /\ tot_pc = "done"
    /\ max_depth = 1
    /\ branching_factor = 3
    /\ beam_width = 1
    /\ Len(next_beam) = 3
    /\ evaluate_calls = 3

\* The place in the beam of node i of the level's children: after the nodes
\* of a higher score and after the earlier nodes of its own score.
PlaceByScore(nodes, i) ==
    1 + Cardinality({ j \in DOMAIN nodes : nodes[j].score > nodes[i].score })
      + Cardinality({ j \in DOMAIN nodes :
                        j < i /\ nodes[j].score = nodes[i].score })

\* A turn of the depth loop has ended without a complete node: next_beam
\* holds the children of the level, sorted, and beam what was kept of them.
LevelEndedIncomplete ==
    /\ levels >= 1
    /\ tot_pc \in { "loop", "return", "done" }
    /\ \A j \in DOMAIN next_beam : ~next_beam[j].complete

\* The children of the level in the order they were generated: the last
\* entries of all_paths, as many as next_beam has nodes.
LevelChildren ==
    SubSeq(all_paths, Len(all_paths) - Len(next_beam) + 1, Len(all_paths))

\* C30: after each depth at which no node is complete, the beam is the first
\* min(beam_width, number of children) nodes of the level's children in the
\* order of their scores, highest first, nodes of equal score in the order
\* they were generated: its size is at most beam_width and no dropped node
\* has a strictly higher score than a kept node.
C30_BeamIsStableTopBeamWidth ==
    LevelEndedIncomplete =>
        /\ Len(beam) = Min2(beam_width, Len(LevelChildren))
        /\ Len(beam) <= beam_width
        /\ \A i \in DOMAIN LevelChildren :
              PlaceByScore(LevelChildren, i) <= Len(beam) =>
                  beam[PlaceByScore(LevelChildren, i)] = LevelChildren[i]
        /\ \A i \in DOMAIN LevelChildren :
              PlaceByScore(LevelChildren, i) > Len(beam) =>
                  \A k \in DOMAIN beam :
                      LevelChildren[i].score <= beam[k].score

\* C30 witness: of four children two were kept; a child of the score of a
\* kept one was dropped, and the first child was not the best.
C30_Witness ==
    /\ LevelEndedIncomplete
    /\ beam_width = 2
    /\ Len(LevelChildren) = 4
    /\ Len(beam) = 2
    /\ LevelChildren[1].score < LevelChildren[2].score
    /\ LevelChildren[4].score = beam[2].score
    /\ beam[1] = LevelChildren[2]
    /\ beam[2] = LevelChildren[3]


\* ---- C31: the strategy name of a switching round ----

\* A switching round is about to ask for a recommendation: the name it
\* passes, and compares the recommendation with, is current_algorithm_name.
SwitchingRoundBegins ==
    /\ moa_pc = "loop"
    /\ moa_iteration < max_algorithm_switches

\* The strategy whose run produced the current best plan and score.
ProducerOfCurrentBest == moa_iterations[moa_current_plan].algorithm

\* C31: in every switching round the strategy name passed to the selection
\* of the next strategy, and compared with the selected name, is the name of
\* the strategy that produced the current best plan and score, also after a
\* round whose result was not better than the current best.
C31_RoundNamesProducerOfBest ==
    SwitchingRoundBegins =>
        current_algorithm_name = ProducerOfCurrentBest


\* ---- C32, C40: the temperature of adaptive sampling ----

\* A call of _adaptive_sampling with at least one prior candidate has asked
\* for its generations; as_results are the scores of the prior candidates.
SampledWithHistory ==
    /\ as_pc = "verify"
    /\ as_results # << >>

\* 1, 0 or -1 as the mean of the last two prior scores is above, equal to or
\* below the mean of the scores before them, in exact arithmetic; 0 for at
\* most two prior scores, where no trend is computed.
TrendSign(prior) ==
    IF Len(prior) <= 2 THEN 0
    ELSE LET last == SumScores(LastTwo(prior)) * (Len(prior) - 2)
             rest == SumScores(AllButLastTwo(prior)) * 2
         IN  IF last > rest THEN 1 ELSE IF last < rest THEN -1 ELSE 0

\* C32 as stated: with at least one prior candidate, every temperature the
\* adaptive sampling passes to the model is lower than the configured
\* temperature if the score trend is positive and higher otherwise.
C32_LowerIfTrendPositiveElseHigher ==
    SampledWithHistory =>
        \A i \in DOMAIN as_temperatures :
            IF TrendSign(as_results) = 1
            THEN FGt(as_temperature, as_temperatures[i])
            ELSE FGt(as_temperatures[i], as_temperature)

\* C32, amended: with at least one prior candidate and the adaptive template
\* rendered, one temperature is passed to the model; for a configured
\* temperature above 0 it is lower than the configured temperature if the
\* score trend is positive, higher if the trend is negative, and equal to it
\* if the trend is zero, as it is for at most two prior candidates; for the
\* configured temperature 0 it is 0.
C32_LowerHigherOrEqualAsTrend ==
    SampledWithHistory /\ as_outcome = "adaptive_plan" =>
        /\ Len(as_temperatures) = 1
        /\ FCmp(as_temperatures[1], as_temperature) =
              IF as_temperature = FZero THEN 0 ELSE -TrendSign(as_results)

\* C32 witness: after three prior candidates of rising scores the adaptive
\* template was rendered and a temperature below the configured one, and
\* above 0, was passed.
C32_Witness ==
    /\ SampledWithHistory
    /\ as_outcome = "adaptive_plan"
    /\ Len(as_results) = 3
    /\ TrendSign(as_results) = 1
    /\ FGt(as_temperature, as_temperatures[1])
    /\ FGt(as_temperatures[1], FZero)

\* C40: every temperature the adaptive sampling passes to the model is at
\* least 0, whatever the scores (in 0..100) of the prior candidates.
C40_TemperatureNeverNegative ==
    \A i \in DOMAIN as_temperatures : FCmp(as_temperatures[i], FZero) >= 0


\* ---- C33: the plan_id of the events of a candidate ----

PlanEventNames == { "plan_generation_start", "plan_generation_complete" }

\* In the log no two events of the same name carry the same plan_id.
PlanIdsDistinct(log) ==
    \A i, j \in DOMAIN log :
        (/\ i < j
         /\ log[i].event \in PlanEventNames
         /\ log[j].event = log[i].event)
            => log[i].plan_id # log[j].plan_id

\* The events of the task submitted k-th, whose result is stored at index
\* k - 1, carry plan_id = k - 1.
PlanIdIsIndex(log) ==
    \A i \in DOMAIN log :
        (log[i].event \in PlanEventNames /\ log[i].worker > 0)
            => log[i].plan_id = log[i].worker - 1

\* The best_plan_id published names a candidate whose completion was
\* published with that plan_id.
BestPlanIdPublished(log) ==
    bon_pc = "done" =>
        \E i \in DOMAIN log :
            /\ log[i].event = "plan_generation_complete"
            /\ log[i].plan_id = best_idx

\* C33: in every BestOfN run, sequential or parallel, the events of the
\* candidate stored at index i carry plan_id = i, the plan_ids of the run
\* are pairwise distinct, and best_plan_id names a candidate whose
\* plan_generation_complete event carried that plan_id.
C33_PlanIdIsResultIndex ==
    \A p \in DOMAIN bon_observers :
        LET log == bon_received[bon_observers[p]]
        IN  /\ PlanIdsDistinct(log)
            /\ PlanIdIsIndex(log)
            /\ BestPlanIdPublished(log)


\* ---- C34: the events of a sequential BestOfN run ----

\* plan_generation_start(i), plan_generation_complete(i) for i = 0 .. n - 1.
RECURSIVE PlanEventPairs(_)
PlanEventPairs(n) ==
    IF n <= 0 THEN << >>
    ELSE PlanEventPairs(n - 1)
            \o << PlanEvent("plan_generation_start", n - 1, 0),
                  PlanEvent("plan_generation_complete", n - 1, 0) >>

\* The events of a sequential run of n plans that returns.
SequentialRunEvents(n) ==
    << Event("BestOfN", "algorithm_start") >>
        \o PlanEventPairs(n)
        \o << Event("BestOfN", "best_plan_selected"),
              Event("BestOfN", "algorithm_complete") >>

IsPrefixOf(s, t) ==
    /\ Len(s) <= Len(t)
    /\ \A i \in DOMAIN s : s[i] = t[i]

\* C34: the events a sequential BestOfN run has published are a prefix of
\* algorithm_start, then plan_generation_start(i) and
\* plan_generation_complete(i) for i = 0 .. n_plans - 1 in ascending order,
\* then best_plan_selected, then algorithm_complete; they are that whole
\* sequence exactly when run has returned, and a run that has raised has
\* published neither best_plan_selected nor algorithm_complete.
C34_SequentialEventsInOrder ==
    ~parallel =>
        \A p \in DOMAIN bon_observers :
            LET log == bon_received[bon_observers[p]]
            IN  /\ IsPrefixOf(log, SequentialRunEvents(n_plans))
                /\ (log = SequentialRunEvents(n_plans)) <=> (bon_pc = "done")
                /\ bon_pc = "raised" =>
                      \A i \in DOMAIN log :
                          log[i].event \notin { "best_plan_selected",
                                                "algorithm_complete" }

\* C34 witness: a sequential run of three plans has raised in its third
\* turn, after algorithm_start, two pairs of plan events and the third
\* start.
C34_Witness ==
    /\ ~parallel
    /\ n_plans = 3
    /\ bon_pc = "raised"
    /\ bon_observers = << "o1", "o2" >>
    /\ Len(bon_received["o2"]) = 6
    /\ bon_received["o2"][6] = PlanEvent("plan_generation_start", 2, 0)


\* ---- C35: the depth of the nodes and the number of children ----

\* The nodes run holds: those of the beam and of the next beam, and the
\* children recorded in all_paths.
NodesCreated ==
    { beam[i] : i \in DOMAIN beam }
        \cup { next_beam[i] : i \in DOMAIN next_beam }
        \cup { all_paths[i] : i \in DOMAIN all_paths }

\* Every node has as many steps as its depth, and at most max_depth.
DepthIsNumberOfSteps ==
    \A node \in NodesCreated :
        /\ node.depth = Len(node.steps)
        /\ node.depth <= max_depth

\* The nodes of the beam have one depth.
BeamOfOneDepth ==
    \A i, j \in DOMAIN beam : beam[i].depth = beam[j].depth

\* The bound of the statement on the number of children.
ChildrenBound == branching_factor * (1 + beam_width * (max_depth - 1))

\* run has ended: it has returned or raised.
TotEnded == tot_pc \in { "done", "raised" }

\* A bound on the number of steps run has left: the turns of the loop over
\* the depths that are left, each with a turn for every node of its beam,
\* and the steps before and after the loop.
LevelSteps == Max2(beam_width, 1) + 3

StepsLeft ==
    CASE tot_pc = "start" -> 3 + max_depth * LevelSteps
      [] tot_pc = "loop" -> 2 + (max_depth - depth) * LevelSteps
      [] tot_pc = "nodes" ->
            4 + (max_depth - depth - 1) * LevelSteps + Len(beam) - node_idx
      [] tot_pc = "return" -> 1
      [] OTHER -> 0

\* C35 as stated: every node has a depth equal to its number of steps and at
\* most max_depth, the nodes of the beam have the same depth, and the number
\* of children generated and step-scored is at most
\* branching_factor * (1 + beam_width * (max_depth - 1)).
C35_DepthsAndChildrenBounded ==
    /\ DepthIsNumberOfSteps
    /\ BeamOfOneDepth
    /\ generate_calls <= ChildrenBound
    /\ evaluate_calls <= ChildrenBound

\* C35, amended: every node has a depth equal to its number of steps and at
\* most max_depth, the nodes of the beam have the same depth; for
\* max_depth >= 1 the number of children generated and step-scored is at
\* most branching_factor * (1 + beam_width * (max_depth - 1)), and for
\* max_depth = 0 it is 0; and run terminates when its calls return: it has a
\* next step until it has ended, and every step lowers a bound on the steps
\* left that is never below 0.
C35_DepthsChildrenBoundedFromDepthOne ==
    /\ [](/\ DepthIsNumberOfSteps
          /\ BeamOfOneDepth
          /\ evaluate_calls <= generate_calls
          /\ generate_calls <=
                IF max_depth >= 1 THEN ChildrenBound ELSE 0
          /\ StepsLeft >= 0
          /\ TotEnded \/ ENABLED TotNext)
    /\ [][StepsLeft' < StepsLeft]_vars

\* C35 witness: a run of branching factor 2, beam width 2 and max_depth 3
\* has returned after generating and scoring 2 * (1 + 2 * 2) = 10 children,
\* the bound.
C35_Witness ==
    /\ tot_pc = "done"
    /\ branching_factor = 2
    /\ beam_width = 2
    /\ max_depth = 3
    /\ generate_calls = 10
    /\ evaluate_calls = 10
    /\ \A i \in DOMAIN beam : beam[i].depth = 3


\* ---- C36: the configurations without a tree ----

\* The loop over the depths is over.
TotLoopLeft == tot_pc \in { "return", "done" }

\* No child can be kept: none is generated or the beam keeps none.
NoChildKept == branching_factor = 0 \/ beam_width = 0

\* C36: with branching_factor = 0 or beam_width = 0, and max_depth >= 1, the
\* beam is empty after the first level, which is the last, and run returns
\* the plan None with the score minus infinity; with max_depth = 0 run
\* returns the empty plan with the score 0 and has asked for no generation;
\* in neither case does the return raise: from the end of the loop run goes
\* on to return.
C36_NoTreeReturnsWithoutError ==
    /\ []((TotLoopLeft /\ NoChildKept /\ max_depth >= 1) =>
             /\ beam = << >>
             /\ levels = 1
             /\ tot_best_plan = NoPlan
             /\ tot_best_score = NegInf)
    /\ []((tot_pc = "done" /\ max_depth = 0) =>
             /\ tot_best_plan = << >>
             /\ tot_best_score = 0
             /\ levels = 0
             /\ generate_calls = 0)
    /\ [][tot_pc = "return" => tot_pc' = "done" /\ tot_raised' = tot_raised]_vars

\* C36 witness: with beam width 0 run has generated and scored the two
\* children of the root, kept none of them, and returned None after one of
\* its three levels.
C36_Witness ==
    /\ tot_pc = "done"
    /\ beam_width = 0
    /\ branching_factor = 2
    /\ max_depth = 3
    /\ evaluate_calls = 2
    /\ Len(next_beam) = 2
    /\ beam = << >>
    /\ tot_best_plan = NoPlan


\* ---- C37: what the calls on the bandit change ----

\* The sum of counts over the arms.
RECURSIVE SumCounts(_)
SumCounts(i) ==
    IF i = 0 THEN 0 ELSE counts[algorithm_names[i]] + SumCounts(i - 1)

\* The step is an update of arm a: its count goes up by one, total_pulls
\* too, and the count and the mean of every other arm stay.
UpdatesOnly(a) ==
    /\ counts'[a] = counts[a] + 1
    /\ total_pulls' = total_pulls + 1
    /\ \A b \in Arms \ { a } :
          /\ counts'[b] = counts[b]
          /\ values'[b] = values[b]
    /\ exploration_weight' = exploration_weight

\* The calls that read.
UcbReads == { "select_algorithm", "get_best_algorithm", "get_ucb_scores" }

\* C37: in every state total_pulls is the sum of counts over the arms; an
\* update of an arm changes only the count and the mean of that arm and
\* total_pulls; select_algorithm, get_best_algorithm and get_ucb_scores
\* change nothing of the bandit.
C37_UpdateChangesOneArmReadsNone ==
    /\ [](total_pulls = SumCounts(Len(algorithm_names)))
    /\ [][ucb_call' = "update" => \E a \in Arms : UpdatesOnly(a)]_vars
    /\ [][ucb_call' \in UcbReads =>
             UNCHANGED << counts, values, total_pulls,
                          exploration_weight >>]_vars

\* C37 witness: after three updates, two of one arm and none of another,
\* get_ucb_scores has returned, with inf for the arm never pulled.
C37_Witness ==
    /\ ucb_call = "get_ucb_scores"
    /\ total_pulls = 3
    /\ counts["REBASE"] = 2
    /\ counts["Best of N"] = 0
    /\ ucb_scores_ret[1]["Best of N"] = FInf
    /\ ucb_scores_ret[1]["REBASE"] # FInf
    /\ FGt(ucb_scores_ret[1]["REBASE"], values["REBASE"])


\* ---- C38: the arm that was never updated ----

\* The arms that were updated; some were and each has a mean below 0, in
\* exact arithmetic.
Pulled == { a \in Arms : updates[a] > 0 }

AllPulledNegative ==
    /\ Pulled # { }
    /\ \A a \in Pulled : reward_sum[a] < 0

\* C38: an arm that was never updated keeps the mean 0.0, and when some
\* arms were updated and every one of them has a mean below 0,
\* get_best_algorithm returns an arm that was never updated, if there is
\* one.
C38_NeverPulledArmCountsAsZero ==
    /\ \A a \in Arms : updates[a] = 0 => values[a] = FZero
    /\ (/\ ucb_call = "get_best_algorithm"
        /\ AllPulledNegative
        /\ Pulled # Arms)
          => ucb_ret \notin Pulled

\* C38 witness: two arms were updated, five times in all, each to a mean
\* below 0, and get_best_algorithm has returned the third arm, which was
\* never updated and is the last of the list.
C38_Witness ==
    /\ ucb_call = "get_best_algorithm"
    /\ updates["REBASE"] = 0
    /\ updates["Best of N"] = 3
    /\ updates["Tree of Thought"] = 2
    /\ AllPulledNegative
    /\ reward_sum["Best of N"] = -50
    /\ ucb_ret = "REBASE"

(***************************************************************************)
(* Claims about Observable                                                 *)
(***************************************************************************)
\* The observers registered: added, and not removed since.
Registered == { o \in Subscribers : obs_since[o] > 0 }

ListedObservers(observers) == { observers[i] : i \in DOMAIN observers }

NoObserverTwice(observers) ==
    \A i, j \in DOMAIN observers : observers[i] = observers[j] => i = j

\* An observer of the list was registered before the ones after it.
InRegistrationOrder(observers) ==
    \A i, j \in DOMAIN observers :
        i < j => obs_since[observers[i]] < obs_since[observers[j]]

\* The calls of update the last call made.
NewUpdates ==
    SubSeq(obs_updates, Len(obs_prev.updates) + 1, Len(obs_updates))

\* The events among the calls of update that were given to observer o.
EventsGivenTo(o) ==
    LET IsOf(u) == u.observer = o
        of == SelectSeq(obs_updates, IsOf)
    IN  [i \in 1 .. Len(of) |-> of[i].plan_data]

\* The last call asked for what the list already had: add_observer of a
\* registered observer, or remove_observer of one that is not registered.
CallWithoutEffect ==
    \/ /\ obs_call.name = "add_observer"
       /\ obs_call.observer \in ListedObservers(obs_prev.observers)
    \/ /\ obs_call.name = "remove_observer"
       /\ obs_call.observer \notin ListedObservers(obs_prev.observers)

\* notify_observers called update once on each registered observer, in the
\* order of the list, with the event it was given, and on no other.
NotifiedEachOnceInOrder ==
    /\ SubSeq(obs_updates, 1, Len(obs_prev.updates)) = obs_prev.updates
    /\ Len(NewUpdates) = Len(obs_observers)
    /\ \A i \in DOMAIN NewUpdates :
          /\ NewUpdates[i].observer = obs_observers[i]
          /\ NewUpdates[i].plan_data = obs_call.plan_data
    /\ \A o \in Registered :
          Cardinality({ i \in DOMAIN NewUpdates :
                            NewUpdates[i].observer = o }) = 1
    /\ \A i \in DOMAIN NewUpdates : NewUpdates[i].observer \in Registered

\* C39: after any sequence of add_observer and remove_observer calls the
\* list of observers has no observer twice, holds exactly the registered
\* observers, and has them in the order of their registration; an
\* add_observer of a registered observer and a remove_observer of an
\* unregistered one leave the list as it was; and notify_observers calls
\* update exactly once on each registered observer, in the order of the
\* list, with the same event.
C39_ObserverListDistinctOrderedNotifiedOnce ==
    /\ NoObserverTwice(obs_observers)
    /\ ListedObservers(obs_observers) = Registered
    /\ InRegistrationOrder(obs_observers)
    /\ CallWithoutEffect => obs_observers = obs_prev.observers
    /\ obs_call.name = "notify_observers" => NotifiedEachOnceInOrder
    /\ \A o \in Subscribers : obs_received[o] = EventsGivenTo(o)

\* "o1" was removed and added again after "o2"; a second add_observer of
\* "o2" changed nothing; the notify_observers after it called "o2" and then
\* "o1".
C39_Witness ==
    /\ obs_call.name = "notify_observers"
    /\ obs_observers = << "o2", "o1" >>
    /\ obs_since = [o \in Subscribers |->
                       IF o = "o1" THEN 4 ELSE IF o = "o2" THEN 2 ELSE 0]
    /\ obs_clock = 6
    /\ obs_updates =
          << [observer |-> "o2", plan_data |-> obs_call.plan_data],
             [observer |-> "o1", plan_data |-> obs_call.plan_data] >>

====
